---- MODULE Spec2Model ----
(***************************************************************************)
(* A model of the cache-tag propagation and revalidation workflow of the   *)
(* Next.js cache-handler test application:                                  *)
(*   - the revalidation endpoint (GET and POST /api/revalidate),            *)
(*   - the use-cache handler shim (wrappedGet) and its tag buffers,         *)
(*   - the CDN probe routes (generateProbeData behind 'use cache') and the  *)
(*     response wrapper that emits the Surrogate-Key header.                *)
(*                                                                         *)
(* Four specifications share the variables:                                 *)
(*   Spec            the probe routes, the cache and the tag buffers, with  *)
(*                   requests that overlap                                  *)
(*   SpecSequential  the same, with requests that arrive one after another  *)
(*   SpecRevalidate  the revalidation endpoint over all of its inputs       *)
(*   SpecWrappedGet  wrappedGet over all results of the underlying get      *)
(***************************************************************************)
EXTENDS Integers, Sequences, FiniteSets, TLC

VARIABLES
    \* ---- the revalidation endpoint (SpecRevalidate)
    rv,          \* the last revalidation request handled, with its response
    rvNow,       \* the server clock seen by the revalidation endpoint
    \* ---- wrappedGet in isolation (SpecWrappedGet)
    wg,          \* the last wrappedGet call: inputs, buffers before, result
    wgCtx,       \* RequestContext tags of the calling request
    wgGlobal,    \* globalThis.__pantheonSurrogateKeyTags
    \* ---- the probe routes (Spec)
    cache,       \* the 'use cache' store: cache key -> entry or NoEntry
    pantheonSurrogateKeyTags,  \* globalThis.__pantheonSurrogateKeyTags
    now,         \* the server clock (new Date())
    nonceCtr,    \* source of randomUUID(): the number of UUIDs drawn so far
    req,         \* the probe requests, each with its position and response
    regen,       \* cache keys with a background regeneration pending
    last,        \* per cache key: the body of the last completed GET, and
                 \* what was revalidated since (for the properties only)
    \* ---- the cache-strategy endpoints (SpecPosts)
    ds,          \* the data-source module: loaded or not, and USE_MOCK_DATA
    fetchCache,  \* the framework's fetch cache for the posts URL
    fetchCount,  \* upstream fetches executed so far
    pr,          \* the last /api/posts/* request handled, with its response
    dc,          \* the last direct call of the data source or the blog service
    prNow,       \* the server clock seen by the /api/posts/* handlers
    \* ---- the CDN demo page (SpecDemo)
    page,        \* the React state of CdnDemoPage
    probeRun,    \* the fetchProbe run: position, loop counter, locals
    revalRun,    \* the handleRevalidate run
    verifyRun,   \* the handleVerify run
    runsStarted, \* runs started on the page so far
    \* ---- the blog service's utility functions (SpecUtil)
    util,        \* the last call of createSlug or createExcerpt: arguments and result
    rt,          \* the last call of calculateReadingTime and the call before it
    \* ---- the middleware (SpecMiddleware)
    mw,          \* the last request the middleware saw, with what it returned
    tasks,       \* the promises handed to event.waitUntil, in order
    objects,     \* the bucket: object name -> content, or NoObject
    \* ---- the CDN header proxy (SpecCdnProxy)
    px           \* the /api/cdn-proxy request at hand: position, timer, response

rvVars == <<rv, rvNow>>
wgVars == <<wg, wgCtx, wgGlobal>>
probeVars == <<cache, pantheonSurrogateKeyTags, now, nonceCtr, req, regen, last>>
postVars == <<ds, fetchCache, fetchCount, pr, dc, prNow>>
demoVars == <<page, probeRun, revalRun, verifyRun, runsStarted>>
vars == <<rv, rvNow, wg, wgCtx, wgGlobal,
          cache, pantheonSurrogateKeyTags, now, nonceCtr, req, regen, last,
          ds, fetchCache, fetchCount, pr, prNow,
          page, probeRun, revalRun, verifyRun, runsStarted, util, rt,
          mw, tasks, objects, px>>

\* what the actions of one part of the model leave alone
utilVars == <<util, rt>>
mwVars == <<mw, tasks, objects>>
exceptProbe == <<rvVars, wgVars, postVars, demoVars, utilVars, mwVars, px>>
exceptRevalidate == <<wgVars, probeVars, postVars, demoVars, utilVars, mwVars, px>>
exceptWrappedGet == <<rvVars, probeVars, postVars, demoVars, utilVars, mwVars, px>>
exceptPosts == <<rvVars, wgVars, probeVars, demoVars, utilVars, mwVars, px>>
exceptDemo == <<rvVars, wgVars, probeVars, postVars, utilVars, mwVars, px>>
exceptUtil == <<rvVars, wgVars, probeVars, postVars, demoVars, mwVars, px>>
exceptMiddleware == <<rvVars, wgVars, probeVars, postVars, demoVars, utilVars, px>>
exceptCdnProxy == <<rvVars, wgVars, probeVars, postVars, demoVars, utilVars, mwVars>>

(***************************************************************************)
(* Bounds of the model.                                                     *)
(***************************************************************************)
MaxReq == 3          \* probe requests in one behaviour of SpecSequential
MaxConcurrent == 2   \* probe requests in one behaviour of Spec
MaxRvClock == 3      \* clock readings of SpecRevalidate
MaxGlobalLen == 3    \* length of the fallback buffer in SpecWrappedGet
MaxPostClock == 4    \* clock readings of SpecPosts
MaxFetches == 3      \* upstream fetches made by direct calls of the data source
MaxTasks == 2        \* background tasks registered in one behaviour of SpecMiddleware
MaxRuns == 3         \* runs started on the demo page in one behaviour of SpecDemo
MaxTitleLen == 4     \* length of the titles createSlug is applied to
MaxBodyLen == 4      \* length of the bodies createExcerpt is applied to
MaxExcerptLen == 5   \* the maximum lengths createExcerpt is applied with

(***************************************************************************)
(* JavaScript values.                                                       *)
(***************************************************************************)
Null == "<null>"            \* null: searchParams.get() of an absent parameter
Undefined == "<undefined>"  \* undefined: a property the object does not have

\* !v for the values a tag or a path can take
Falsy(v) == v \in {Null, Undefined, ""}

(***************************************************************************)
(* The revalidation endpoint.                                               *)
(***************************************************************************)
noCacheHeaders ==
    [CacheControl |-> "private, no-cache, no-store, max-age=0, must-revalidate",
     Pragma |-> "no-cache",
     Expires |-> "0"]

NoHeaders == [none |-> TRUE]

\* one invocation of a framework invalidation primitive
revalidatePath(path) == [fn |-> "revalidatePath", args |-> <<path>>]
revalidateTag(tag) == [fn |-> "revalidateTag", args |-> <<tag, "max">>]

ErrorResponse500 ==
    [status |-> 500,
     body |-> [error |-> "Failed to revalidate cache"],
     headers |-> noCacheHeaders]

\* a variant that takes the path branch whenever the path parameter is present
RevalidateGET_PathNotNull(tag, path, throws, t) ==
    IF Falsy(tag) /\ Falsy(path)
    THEN [resp |-> [status |-> 400,
                    body |-> [error |-> "Cache tag or path is required. Use ?tag=your-tag-name or ?path=/your-path",
                              available_tags |-> <<"api-posts", "external-data">>,
                              usage |-> <<"GET /api/revalidate?tag=<tag>",
                                          "GET /api/revalidate?path=<path>">>],
                    headers |-> NoHeaders],
          calls |-> <<>>]
    ELSE IF path # Null
    THEN [resp |-> IF throws THEN ErrorResponse500
                   ELSE [status |-> 200,
                         body |-> [message |-> <<"Path", path, "has been revalidated">>,
                                   revalidated_at |-> t,
                                   path |-> path,
                                   method |-> "revalidatePath"],
                         headers |-> noCacheHeaders],
          calls |-> <<revalidatePath(path)>>]
    ELSE [resp |-> IF throws THEN ErrorResponse500
                   ELSE [status |-> 200,
                         body |-> [message |-> <<"Cache tag", tag, "has been revalidated">>,
                                   revalidated_at |-> t,
                                   tag |-> tag,
                                   method |-> "revalidateTag"],
                         headers |-> noCacheHeaders],
          calls |-> <<revalidateTag(tag)>>]

\* a variant that looks at the tag before the path
RevalidateGET_TagFirst(tag, path, throws, t) ==
    IF Falsy(tag) /\ Falsy(path)
    THEN [resp |-> [status |-> 400,
                    body |-> [error |-> "Cache tag or path is required. Use ?tag=your-tag-name or ?path=/your-path",
                              available_tags |-> <<"api-posts", "external-data">>,
                              usage |-> <<"GET /api/revalidate?tag=<tag>",
                                          "GET /api/revalidate?path=<path>">>],
                    headers |-> NoHeaders],
          calls |-> <<>>]
    ELSE IF ~Falsy(tag)
    THEN [resp |-> IF throws THEN ErrorResponse500
                   ELSE [status |-> 200,
                         body |-> [message |-> <<"Cache tag", tag, "has been revalidated">>,
                                   revalidated_at |-> t,
                                   tag |-> tag,
                                   method |-> "revalidateTag"],
                         headers |-> noCacheHeaders],
          calls |-> <<revalidateTag(tag)>>]
    ELSE [resp |-> IF throws THEN ErrorResponse500
                   ELSE [status |-> 200,
                         body |-> [message |-> <<"Path", path, "has been revalidated">>,
                                   revalidated_at |-> t,
                                   path |-> path,
                                   method |-> "revalidatePath"],
                         headers |-> noCacheHeaders],
          calls |-> <<revalidatePath(path)>>]

\* GET /api/revalidate?tag=..&path=.. ; throws: the invalidation primitive
\* raises; t: the clock when the handler runs.
\* The result is the response and the primitives invoked, in order.
RevalidateGET(tag, path, throws, t) ==
    IF Falsy(tag) /\ Falsy(path)
    THEN [resp |-> [status |-> 400,
                    body |-> [error |-> "Cache tag or path is required. Use ?tag=your-tag-name or ?path=/your-path",
                              available_tags |-> <<"api-posts", "external-data">>,
                              usage |-> <<"GET /api/revalidate?tag=<tag>",
                                          "GET /api/revalidate?path=<path>">>],
                    headers |-> NoHeaders],
          calls |-> <<>>]
    ELSE IF ~Falsy(path)
    THEN [resp |-> IF throws THEN ErrorResponse500
                   ELSE [status |-> 200,
                         body |-> [message |-> <<"Path", path, "has been revalidated">>,
                                   revalidated_at |-> t,
                                   path |-> path,
                                   method |-> "revalidatePath"],
                         headers |-> noCacheHeaders],
          calls |-> <<revalidatePath(path)>>]
    ELSE [resp |-> IF throws THEN ErrorResponse500
                   ELSE [status |-> 200,
                         body |-> [message |-> <<"Cache tag", tag, "has been revalidated">>,
                                   revalidated_at |-> t,
                                   tag |-> tag,
                                   method |-> "revalidateTag"],
                         headers |-> noCacheHeaders],
          calls |-> <<revalidateTag(tag)>>]

\* The body of a POST as request.json() sees it:
\*   kind "invalid"  the text is not JSON: request.json() rejects
\*   kind "null"     the JSON value null
\*   kind "scalar"   a JSON number, string or boolean (property reads give undefined)
\*   kind "object"   a JSON object; tag is its tag property (Undefined when it has none)
PostBodyTag(body) == IF body.kind = "object" THEN body.tag ELSE Undefined

\* a variant without the catch block around request.json(): a body that is not
\* JSON is answered like a body without a tag
RevalidatePOST_ParseUncaught(body, throws, t) ==
    IF body.kind \in {"invalid", "null"}
    THEN [resp |-> [status |-> 400,
                    body |-> [error |-> "Cache tag is required"],
                    headers |-> NoHeaders],
          calls |-> <<>>]
    ELSE IF Falsy(PostBodyTag(body))
    THEN [resp |-> [status |-> 400,
                    body |-> [error |-> "Cache tag is required"],
                    headers |-> NoHeaders],
          calls |-> <<>>]
    ELSE [resp |-> IF throws THEN ErrorResponse500
                   ELSE [status |-> 200,
                         body |-> [message |-> <<"Cache tag", PostBodyTag(body), "has been revalidated">>,
                                   revalidated_at |-> t,
                                   tag |-> PostBodyTag(body)],
                         headers |-> noCacheHeaders],
          calls |-> <<revalidateTag(PostBodyTag(body))>>]

\* POST /api/revalidate.  "const { tag } = body" raises a TypeError when body is
\* null; like a rejected request.json() it lands in the catch block.
RevalidatePOST(body, throws, t) ==
    IF body.kind \in {"invalid", "null"}
    THEN [resp |-> ErrorResponse500, calls |-> <<>>]
    ELSE LET tag == PostBodyTag(body) IN
         IF Falsy(tag)
         THEN [resp |-> [status |-> 400,
                         body |-> [error |-> "Cache tag is required"],
                         headers |-> NoHeaders],
               calls |-> <<>>]
         ELSE [resp |-> IF throws THEN ErrorResponse500
                        ELSE [status |-> 200,
                              body |-> [message |-> <<"Cache tag", tag, "has been revalidated">>,
                                        revalidated_at |-> t,
                                        tag |-> tag],
                              headers |-> noCacheHeaders],
               calls |-> <<revalidateTag(tag)>>]

\* the inputs the endpoint is driven with
QueryTags == {Null, "", "cdnprobe", "api-posts"}
QueryPaths == {Null, "", "/cdnprobe", "/api/cdnprobe"}
PostBodies ==
    {[kind |-> "invalid", tag |-> Undefined],
     [kind |-> "null", tag |-> Undefined],
     [kind |-> "scalar", tag |-> Undefined]}
    \cup {[kind |-> "object", tag |-> g] : g \in {Undefined, Null, "", "cdnprobe", "api-posts"}}

NoRequest == [method |-> "none"]

InitRevalidate ==
    /\ rv = NoRequest
    /\ rvNow = 0

\* one GET /api/revalidate request, handled to completion
HandleRevalidateGET ==
    /\ rvNow < MaxRvClock
    /\ \E tag \in QueryTags, path \in QueryPaths, throws \in BOOLEAN :
         LET out == RevalidateGET(tag, path, throws, rvNow + 1) IN
         rv' = [method |-> "GET", tag |-> tag, path |-> path, throws |-> throws,
                t |-> rvNow + 1, resp |-> out.resp, calls |-> out.calls]
    /\ rvNow' = rvNow + 1

\* one POST /api/revalidate request, handled to completion
HandleRevalidatePOST ==
    /\ rvNow < MaxRvClock
    /\ \E body \in PostBodies, throws \in BOOLEAN :
         LET out == RevalidatePOST(body, throws, rvNow + 1) IN
         rv' = [method |-> "POST", postBody |-> body, throws |-> throws,
                t |-> rvNow + 1, resp |-> out.resp, calls |-> out.calls]
    /\ rvNow' = rvNow + 1

(***************************************************************************)
(* The use-cache handler shim: wrappedGet and the two tag buffers.          *)
(***************************************************************************)
\* what the underlying handler.get(cacheKey, softTags) resolves to
MissResult == [kind |-> "miss"]
EntryResult(hasTags, tags, value) ==
    [kind |-> "entry", hasTags |-> hasTags, tags |-> tags, value |-> value]

\* result && result.tags && result.tags.length > 0
IsTaggedHit(result) ==
    /\ result.kind = "entry"
    /\ result.hasTags
    /\ Len(result.tags) > 0

\* RequestContext.addTags(tags): the tags join the request-scoped buffer
ContextAddTags(ctx, tags) == ctx \o tags

\* a variant that captures nothing: the underlying get as it is
wrappedGet_Plain(result, active, ctx, glob) ==
    [ret |-> result, ctx |-> ctx, glob |-> glob]

\* a variant that never uses the fallback buffer
wrappedGet_NoFallback(result, active, ctx, glob) ==
    [ret |-> result,
     ctx |-> IF IsTaggedHit(result) /\ active THEN ContextAddTags(ctx, result.tags) ELSE ctx,
     glob |-> glob]

\* a variant that pushes to the fallback buffer on every tagged hit
wrappedGet_Both(result, active, ctx, glob) ==
    [ret |-> result,
     ctx |-> IF IsTaggedHit(result) /\ active THEN ContextAddTags(ctx, result.tags) ELSE ctx,
     glob |-> IF IsTaggedHit(result) THEN glob \o result.tags ELSE glob]

\* wrappedGet(cacheKey, softTags), given what handler.get resolved to, whether
\* RequestContext.isActive(), and the two buffers: the value returned and the
\* buffers afterwards
wrappedGet(result, active, ctx, glob) ==
    [ret |-> result,
     ctx |-> IF IsTaggedHit(result) /\ active THEN ContextAddTags(ctx, result.tags) ELSE ctx,
     glob |-> IF IsTaggedHit(result) /\ ~active THEN glob \o result.tags ELSE glob]

TagLists == {<<>>, <<"cdnprobe">>, <<"api-posts">>, <<"cdnprobe", "api-posts">>}

\* the results wrappedGet is driven with: a miss, an entry without a tags
\* property, entries with an empty and with a non-empty tags list
GetResults ==
    {MissResult, EntryResult(FALSE, <<>>, "payload")}
    \cup {EntryResult(TRUE, tl, "payload") : tl \in TagLists}

NoCall == [called |-> FALSE]

InitWrappedGet ==
    /\ wg = NoCall
    /\ wgCtx = <<>>
    /\ wgGlobal = <<>>

\* one call of wrappedGet
CallWrappedGet ==
    \E result \in GetResults, active \in BOOLEAN :
      LET out == wrappedGet(result, active, wgCtx, wgGlobal) IN
      /\ Len(out.ctx) <= MaxGlobalLen
      /\ Len(out.glob) <= MaxGlobalLen
      /\ wg' = [called |-> TRUE, result |-> result, active |-> active,
                ctxBefore |-> wgCtx, globBefore |-> wgGlobal, ret |-> out.ret]
      /\ wgCtx' = out.ctx
      /\ wgGlobal' = out.glob

\* a variant of the module's first statement that starts from an empty buffer
\* every time
ModuleEvaluation_Reset(defined, glob) == <<>>

\* globalThis.__pantheonSurrogateKeyTags = globalThis.__pantheonSurrogateKeyTags || []
\* (an array, empty or not, is truthy)
ModuleEvaluation(defined, glob) == IF defined THEN glob ELSE <<>>

\* the module is evaluated again in the same process: the buffer exists
EvaluateModule ==
    /\ wgGlobal' = ModuleEvaluation(TRUE, wgGlobal)
    /\ UNCHANGED <<wg, wgCtx>>

\* a new request begins: its request-scoped context starts empty
NewRequestContext ==
    /\ wgCtx # <<>>
    /\ wgCtx' = <<>>
    /\ wg' = NoCall
    /\ UNCHANGED wgGlobal

(***************************************************************************)
(* The CDN probe routes, the 'use cache' store and the response wrapper.    *)
(***************************************************************************)
\* GET /api/cdnprobe, wrapped by withSurrogateKey (GET /cdnprobe of
\* app/cdnprobe/route.ts is the same handler without the connection() call),
\* and the variant of GET /cdnprobe that sets Surrogate-Key itself
WrappedRoutes == {"api_cdnprobe"}
Routes == WrappedRoutes \cup {"cdnprobe_explicit"}

\* each route has a generateProbeData of its own, hence a cache entry of its own
CacheKey(route) == route

RoutePath(route) == IF route = "api_cdnprobe" THEN "/api/cdnprobe" ELSE "/cdnprobe"

ProbeCacheControl == "public, s-maxage=3600, stale-while-revalidate=0"

NoEntry == [kind |-> "miss"]
NoData == [none |-> TRUE]
NoLast == [data |-> NoData, rel |-> "none"]
Reqs == 1..MaxReq

IdleReq ==
    [pc |-> "idle", route |-> "none", active |-> FALSE, ctxTags |-> <<>>,
     data |-> NoData, hit |-> FALSE, hitTags |-> <<>>,
     surrogateSet |-> FALSE, surrogate |-> <<>>, cacheControl |-> "",
     follows |-> "none", prev |-> NoData, alone |-> FALSE, pushedWith |-> {}]

InFlight == {r \in Reqs : req[r].pc \notin {"idle", "done"}}

Range(seq) == {seq[i] : i \in 1..Len(seq)}

InitProbe ==
    /\ cache = [k \in Routes |-> NoEntry]
    /\ pantheonSurrogateKeyTags = <<>>
    /\ now = 0
    /\ nonceCtr = 0
    /\ req = [r \in Reqs |-> IdleReq]
    /\ regen = {}
    /\ last = [k \in Routes |-> NoLast]

\* How a GET of key k that starts now stands to the GET of k completed last
\* (for the properties only):
\*   "quiet"  it starts with no request in flight, the entry is cached, the last
\*            GET ran on its own and was served from the cache, and no
\*            revalidation of the entry was requested since
\*   "tag"    it starts with no request in flight, the entry is cached, and a
\*            revalidateTag of the entry's tag was requested since the last GET
\*   "none"   otherwise
Follows(k) ==
    IF InFlight # {} \/ cache[k] = NoEntry \/ last[k] = NoLast THEN "none"
    ELSE IF last[k].rel \in {"quiet", "tag"} THEN last[k].rel
    ELSE "none"

\* a request for a probe route arrives; active: the request-scoped context of
\* the wrapper is visible inside the cache layer
Start(r, route, active) ==
    /\ req[r].pc = "idle"
    /\ \A q \in Reqs : q < r => req[q].pc # "idle"
    /\ now' = now + 1
    /\ req' = [q \in Reqs |->
                 IF q = r
                 THEN [IdleReq EXCEPT !.pc = "started", !.route = route,
                                      !.active = active,
                                      !.follows = Follows(CacheKey(route)),
                                      !.prev = IF Follows(CacheKey(route)) = "none"
                                               THEN NoData
                                               ELSE last[CacheKey(route)].data,
                                      !.alone = (InFlight = {})]
                 ELSE IF q \in InFlight THEN [req[q] EXCEPT !.alone = FALSE]
                 ELSE req[q]]
    /\ UNCHANGED <<cache, pantheonSurrogateKeyTags, nonceCtr, regen, last>>

\* the body of generateProbeData: a record stamped with the clock and a fresh UUID
generateProbeData(t, n) == [generated_at |-> t, nonce |-> n]

\* the entry the framework stores for an execution of generateProbeData:
\* cacheTag('cdnprobe') makes 'cdnprobe' its tag
ProbeEntry(t, n) ==
    [kind |-> "entry", hasTags |-> TRUE, tags |-> <<"cdnprobe">>,
     value |-> generateProbeData(t, n), stale |-> FALSE]

\* generateProbeData, first half: the framework looks the call up through the
\* cache handler's get (wrappedGet).  A stale entry is served as it is while a
\* regeneration is scheduled in the background (stale-while-revalidate).
Lookup(r) ==
    /\ req[r].pc = "started"
    /\ LET k == CacheKey(req[r].route)
           out == wrappedGet(cache[k], req[r].active, req[r].ctxTags, pantheonSurrogateKeyTags)
       IN /\ pantheonSurrogateKeyTags' = out.glob
          /\ IF out.ret.kind = "entry"
             THEN /\ req' = [req EXCEPT ![r].pc = "have",
                                        ![r].ctxTags = out.ctx,
                                        ![r].data = out.ret.value,
                                        ![r].hit = TRUE,
                                        ![r].hitTags = out.ret.tags,
                                        ![r].pushedWith = InFlight \ {r}]
                  /\ regen' = IF out.ret.stale THEN regen \cup {k} ELSE regen
             ELSE /\ req' = [req EXCEPT ![r].pc = "miss", ![r].ctxTags = out.ctx]
                  /\ regen' = regen
    /\ UNCHANGED <<cache, now, nonceCtr, last>>

\* generateProbeData, second half, on a miss: the body runs and the framework
\* stores its result under the tag
Generate(r) ==
    /\ req[r].pc = "miss"
    /\ nonceCtr' = nonceCtr + 1
    /\ cache' = [cache EXCEPT ![CacheKey(req[r].route)] = ProbeEntry(now, nonceCtr + 1)]
    /\ req' = [req EXCEPT ![r].pc = "have", ![r].data = generateProbeData(now, nonceCtr + 1)]
    /\ UNCHANGED <<pantheonSurrogateKeyTags, now, regen, last>>

\* the background regeneration a stale hit scheduled: the body runs again and
\* its result replaces the stale entry
BackgroundRegen(k) ==
    /\ k \in regen
    /\ nonceCtr' = nonceCtr + 1
    /\ cache' = [cache EXCEPT ![k] = ProbeEntry(now, nonceCtr + 1)]
    /\ regen' = regen \ {k}
    /\ UNCHANGED <<pantheonSurrogateKeyTags, now, req, last>>

\* what a completed GET leaves for the next one to compare with
Completed(r) ==
    last' = [last EXCEPT ![CacheKey(req[r].route)] =
               [data |-> req[r].data,
                rel |-> IF req[r].alone /\ req[r].hit THEN "quiet" ELSE "overlapped"]]

\* the route handler returns NextResponse.json(data, { headers }); the variant
\* that is not wrapped sets Surrogate-Key: cdnprobe itself and is finished
Respond(r) ==
    /\ req[r].pc = "have"
    /\ IF req[r].route \in WrappedRoutes
       THEN /\ req' = [req EXCEPT ![r].pc = "responded",
                                  ![r].cacheControl = ProbeCacheControl]
            /\ UNCHANGED last
       ELSE /\ req' = [req EXCEPT ![r].pc = "done",
                                  ![r].cacheControl = ProbeCacheControl,
                                  ![r].surrogateSet = TRUE,
                                  ![r].surrogate = <<"cdnprobe">>]
            /\ Completed(r)
    /\ UNCHANGED <<cache, pantheonSurrogateKeyTags, now, nonceCtr, regen>>

\* the tags withSurrogateKey reads once the handler has returned: those of the
\* request-scoped context, else the process-wide fallback buffer
AccumulatedTags(ctx, glob) == IF ctx # <<>> THEN ctx ELSE glob

\* withSurrogateKey after the handler: one Surrogate-Key header with the tags
withSurrogateKey(r) ==
    /\ req[r].pc = "responded"
    /\ req' = [req EXCEPT ![r].pc = "done",
                          ![r].surrogateSet = TRUE,
                          ![r].surrogate = AccumulatedTags(req[r].ctxTags, pantheonSurrogateKeyTags)]
    /\ Completed(r)
    /\ UNCHANGED <<cache, pantheonSurrogateKeyTags, now, nonceCtr, regen>>

\* revalidateTag(tag, 'max'): every entry carrying the tag becomes stale
\* revalidatePath(path): the entries of the route at that path are dropped
ApplyCall(c, call) ==
    [k \in Routes |->
        IF call.fn = "revalidateTag"
        THEN IF c[k] # NoEntry /\ call.args[1] \in Range(c[k].tags)
             THEN [c[k] EXCEPT !.stale = TRUE] ELSE c[k]
        ELSE IF RoutePath(k) = call.args[1] THEN NoEntry ELSE c[k]]

LastAfter(c, l, call) ==
    [k \in Routes |->
        IF call.fn = "revalidateTag"
        THEN IF c[k] # NoEntry /\ call.args[1] \in Range(c[k].tags) /\ l[k] # NoLast
             THEN [l[k] EXCEPT !.rel = "tag"] ELSE l[k]
        ELSE IF RoutePath(k) = call.args[1] THEN NoLast ELSE l[k]]

\* the effect of a revalidation request on the store: that of the primitive it
\* invoked, unless the primitive raised.  A GET in flight when the store is
\* revalidated neither counts as following the last one nor as served on its
\* own (for the properties only).
Revalidated(out) ==
    /\ IF out.resp.status = 200
       THEN /\ cache' = ApplyCall(cache, out.calls[1])
            /\ last' = LastAfter(cache, last, out.calls[1])
            /\ req' = [q \in Reqs |->
                         IF q \in InFlight
                         THEN [req[q] EXCEPT !.follows = "none", !.prev = NoData,
                                             !.alone = FALSE]
                         ELSE req[q]]
       ELSE UNCHANGED <<cache, last, req>>
    /\ UNCHANGED <<pantheonSurrogateKeyTags, now, nonceCtr, regen>>

ProbeQueryTags == {Null, "cdnprobe"}
ProbeQueryPaths == {Null, "/cdnprobe", "/api/cdnprobe"}

\* GET /api/revalidate while the probe routes are being served
RevalidateByGET ==
    /\ \E tag \in ProbeQueryTags, path \in ProbeQueryPaths, throws \in BOOLEAN :
          Revalidated(RevalidateGET(tag, path, throws, now))
    /\ UNCHANGED exceptProbe

\* POST /api/revalidate while the probe routes are being served
RevalidateByPOST ==
    /\ \E throws \in BOOLEAN :
          Revalidated(RevalidatePOST([kind |-> "object", tag |-> "cdnprobe"], throws, now))
    /\ UNCHANGED exceptProbe

\* requests that may overlap one another
StartWrapped ==
    /\ \E r \in 1..MaxConcurrent, route \in WrappedRoutes, active \in BOOLEAN :
          Start(r, route, active)
    /\ UNCHANGED exceptProbe

StartExplicit ==
    /\ \E r \in 1..MaxConcurrent : Start(r, "cdnprobe_explicit", FALSE)
    /\ UNCHANGED exceptProbe

\* requests that arrive one after the other
StartWrappedNext ==
    /\ InFlight = {}
    /\ \E r \in Reqs, route \in WrappedRoutes, active \in BOOLEAN : Start(r, route, active)
    /\ UNCHANGED exceptProbe

StartExplicitNext ==
    /\ InFlight = {}
    /\ \E r \in Reqs : Start(r, "cdnprobe_explicit", FALSE)
    /\ UNCHANGED exceptProbe

DoLookup == (\E r \in Reqs : Lookup(r)) /\ UNCHANGED exceptProbe
DoGenerate == (\E r \in Reqs : Generate(r)) /\ UNCHANGED exceptProbe
DoBackgroundRegen == (\E k \in Routes : BackgroundRegen(k)) /\ UNCHANGED exceptProbe
DoRespond == (\E r \in Reqs : Respond(r)) /\ UNCHANGED exceptProbe
DoWrap == (\E r \in Reqs : withSurrogateKey(r)) /\ UNCHANGED exceptProbe

(***************************************************************************)
(* The blog service's utility functions.  A string is the sequence of its   *)
(* characters.                                                              *)
(***************************************************************************)
\* the characters titles are made of: a lowercase and an uppercase letter,
\* whitespace, hyphen, underscore, punctuation
TitleChars == {"a", "B", " ", "-", "_", "!"}

\* the sequences over set S of length at most n
RECURSIVE SeqsUpTo(_, _)
SeqsUpTo(S, n) ==
    IF n = 0 THEN {<<>>}
    ELSE LET shorter == SeqsUpTo(S, n - 1) IN
         shorter \cup {Append(q, c) : q \in {x \in shorter : Len(x) = n - 1}, c \in S}

\* \w, \s and the class [\w\s-]
IsWordChar(c) == c \in {"a", "b", "B", "_"}
IsSpaceChar(c) == c = " "
IsSlugSource(c) == IsWordChar(c) \/ IsSpaceChar(c) \/ c = "-"

\* String.prototype.toLowerCase
ToLowerChar(c) == IF c = "B" THEN "b" ELSE c
toLowerCase(str) == [i \in 1..Len(str) |-> ToLowerChar(str[i])]

\* .replace(/[^\w\s-]/g, '')
StripNonSlugChars(str) == SelectSeq(str, IsSlugSource)

\* the length of the run of characters of class cls that str starts with
RECURSIVE RunLength(_, _)
RunLength(str, cls) ==
    IF str = <<>> \/ Head(str) \notin cls THEN 0
    ELSE 1 + RunLength(Tail(str), cls)

\* .replace(/c{min,}/g, '-') for the characters c of class cls: every maximal
\* run of at least min of them becomes one hyphen
RECURSIVE ReplaceRuns(_, _, _)
ReplaceRuns(str, cls, min) ==
    IF str = <<>> THEN <<>>
    ELSE LET n == RunLength(str, cls) IN
         IF n >= min
         THEN <<"-">> \o ReplaceRuns(SubSeq(str, n + 1, Len(str)), cls, min)
         ELSE IF n > 0
         THEN SubSeq(str, 1, n) \o ReplaceRuns(SubSeq(str, n + 1, Len(str)), cls, min)
         ELSE <<Head(str)>> \o ReplaceRuns(Tail(str), cls, min)

\* String.prototype.trim
RECURSIVE TrimStart(_)
TrimStart(str) ==
    IF str # <<>> /\ IsSpaceChar(Head(str)) THEN TrimStart(Tail(str)) ELSE str
RECURSIVE TrimEnd(_)
TrimEnd(str) ==
    IF str # <<>> /\ IsSpaceChar(str[Len(str)])
    THEN TrimEnd(SubSeq(str, 1, Len(str) - 1)) ELSE str
trim(str) == TrimEnd(TrimStart(str))

createSlug(title) ==
    trim(ReplaceRuns(ReplaceRuns(StripNonSlugChars(toLowerCase(title)), {" "}, 1),
                     {"-"}, 2))

\* String.prototype.substring(0, n): n is clamped to the string
substring0(str, n) ==
    SubSeq(str, 1, IF n < 0 THEN 0 ELSE IF n > Len(str) THEN Len(str) ELSE n)

Ellipsis == <<".", ".", ".">>

\* a variant that cuts bodies of exactly the maximum length as well
createExcerpt_AtLeast(body, maxLength) ==
    IF Len(body) >= maxLength THEN substring0(body, maxLength) \o Ellipsis ELSE body

createExcerpt(body, maxLength) ==
    IF Len(body) > maxLength THEN substring0(body, maxLength) \o Ellipsis ELSE body

wordsPerMinute == 200

\* text.split(/\s+/).length: the pieces between the maximal runs of
\* whitespace, the empty pieces at either end included
SplitLength(text) ==
    Cardinality({i \in 1..Len(text) :
                    IsSpaceChar(text[i]) /\ (i = 1 \/ ~IsSpaceChar(text[i - 1]))}) + 1

\* a variant that rounds down
calculateReadingTime_Floor(text) == SplitLength(text) \div wordsPerMinute

\* Math.ceil(words / wordsPerMinute)
calculateReadingTime(text) ==
    (SplitLength(text) + wordsPerMinute - 1) \div wordsPerMinute

\* unit repeated n times
Repeat(unit, n) == [i \in 1..(n * Len(unit)) |-> unit[((i - 1) % Len(unit)) + 1]]

\* the texts calculateReadingTime is applied to: empty, whitespace only, and
\* word counts on either side of one and two minutes of reading
TextUnits == {<<"a", " ">>, <<" ">>, <<"a", " ", " ">>}
TextRepeats == {0, 1, wordsPerMinute - 1, wordsPerMinute, 2 * wordsPerMinute}
Texts ==
    {head \o Repeat(unit, n) \o tail :
        head \in {<<>>, <<" ">>}, unit \in TextUnits, n \in TextRepeats,
        tail \in {<<>>, <<"a">>}}

Titles == SeqsUpTo(TitleChars, MaxTitleLen)
Bodies == SeqsUpTo({"x", "y"}, MaxBodyLen)

NoUtilCall == [fn |-> "none"]

InitUtil == util = NoUtilCall /\ rt = NoUtilCall

CallCreateSlug ==
    \E title \in Titles :
        util' = [fn |-> "createSlug", title |-> title, result |-> createSlug(title)]

CallCreateExcerpt ==
    \E body \in Bodies, maxLength \in 0..MaxExcerptLen :
        util' = [fn |-> "createExcerpt", body |-> body, maxLength |-> maxLength,
                 result |-> createExcerpt(body, maxLength)]

(***************************************************************************)
(* The cache-strategy endpoints: /api/posts/force-cache, /api/posts/no-cache *)
(* and /api/posts/with-tags, the blog service and the data source.          *)
(***************************************************************************)
\* posts are represented by their ids
MOCK_POSTS == <<1, 2, 3, 4, 5>>

\* what the JSONPlaceholder request can come to: a 2xx response with a list of
\* posts, a response that is not ok, a rejected fetch (network error)
SourceResults == {<<>>, <<1, 2>>, <<1, 2, 3>>, <<4, 3, 2, 1>>, <<2, 1, 4, 3, 5>>}
UpstreamOutcomes ==
    {[kind |-> "ok", posts |-> ps] : ps \in SourceResults}
    \cup {[kind |-> "notok", posts |-> <<>>], [kind |-> "reject", posts |-> <<>>]}

\* the options argument of fetch(); NoOptions: fetch(url) with the url alone
NoOptions == [none |-> TRUE]
NoStoreOptions == [cache |-> "no-store"]
ForceCacheOptions == [cache |-> "force-cache"]
TagsOptions == [tags |-> <<"api-posts", "external-data">>, revalidate |-> 300]

NotCached == [cached |-> FALSE]
Cached(ps) == [cached |-> TRUE, posts |-> ps]

\* fetch() options under which the framework stores and reuses the response
UsesFetchCache(options) ==
    \/ "cache" \in DOMAIN options /\ options.cache = "force-cache"
    \/ "tags" \in DOMAIN options
    \/ "revalidate" \in DOMAIN options

\* the framework's fetch(url, options): the outcome seen by the caller, the
\* fetch cache afterwards, and whether the upstream request was executed
fetch(options, cached, outcome) ==
    IF UsesFetchCache(options) /\ cached.cached
    THEN [outcome |-> [kind |-> "ok", posts |-> cached.posts],
          cached |-> cached, executed |-> FALSE]
    ELSE [outcome |-> outcome,
          cached |-> IF UsesFetchCache(options) /\ outcome.kind = "ok"
                     THEN Cached(outcome.posts) ELSE cached,
          executed |-> TRUE]

\* the data source's getPosts(): it declares no parameter, so the options the
\* blog service passes are dropped and fetch() is called with the url alone;
\* it throws when fetch rejects or the response is not ok
getPosts(options, mock, cached, outcome) ==
    IF mock
    THEN [threw |-> FALSE, posts |-> MOCK_POSTS, cached |-> cached, executed |-> FALSE,
          fetchOptions |-> NoOptions]
    ELSE LET f == fetch(NoOptions, cached, outcome) IN
         [threw |-> f.outcome.kind # "ok", posts |-> f.outcome.posts,
          cached |-> f.cached, executed |-> f.executed,
          fetchOptions |-> NoOptions]

\* posts.slice(0, 3)
Slice3(ps) == SubSeq(ps, 1, IF Len(ps) < 3 THEN Len(ps) ELSE 3)

\* a variant that does not truncate
fetchPostsWith_All(options, mock, cached, outcome) ==
    getPosts(options, mock, cached, outcome)

\* fetchPostsWithNoCache / fetchPostsWithForceCache / fetchPostsWithTags: the
\* data source's posts, truncated; an exception of the data source propagates
fetchPostsWith(options, mock, cached, outcome) ==
    LET g == getPosts(options, mock, cached, outcome) IN
    [g EXCEPT !.posts = IF g.threw THEN <<>> ELSE Slice3(g.posts)]

PostsEndpoints == {"force-cache", "no-cache", "with-tags"}

EndpointOptions(e) ==
    IF e = "force-cache" THEN ForceCacheOptions
    ELSE IF e = "no-cache" THEN NoStoreOptions
    ELSE TagsOptions

\* the cache_strategy field of each endpoint
CacheStrategy(e) ==
    IF e = "force-cache" THEN "force-cache"
    ELSE IF e = "no-cache" THEN "no-store"
    ELSE "tags-revalidate-5m"

\* the headers of the 200 responses; Cache-Control as its list of directives
PostsOkHeaders(e) ==
    [CacheControl |-> IF e = "no-cache"
                      THEN <<"private", "no-cache", "no-store", "max-age=0", "must-revalidate">>
                      ELSE <<"private", "no-cache", "no-store", "must-revalidate", "max-age=0">>,
     Pragma |-> "no-cache",
     Expires |-> "0"]

\* the headers of the 500 responses: only /api/posts/no-cache sets any
PostsErrorHeaders(e) ==
    IF e = "no-cache" THEN PostsOkHeaders(e) ELSE NoHeaders

\* a variant of the catch block that answers with the error alone
PostsErrorBody_Bare(e, start, end) == [error |-> "Failed to fetch posts"]

PostsErrorBody(e, start, end) ==
    [error |-> "Failed to fetch posts",
     cache_strategy |-> CacheStrategy(e),
     duration_ms |-> end - start,
     fetched_at |-> end]

PostsOkBody(e, posts, start, end) ==
    IF e = "with-tags"
    THEN [data |-> posts, cache_strategy |-> CacheStrategy(e),
          duration_ms |-> end - start, fetched_at |-> end,
          tags |-> <<"api-posts", "external-data">>,
          meta |-> [data_hash |-> SubSeq(posts, 1, IF Len(posts) < 1 THEN 0 ELSE 1),
                    route_execution_time |-> end]]
    ELSE [data |-> posts, cache_strategy |-> CacheStrategy(e),
          duration_ms |-> end - start, fetched_at |-> end]

\* GET of a cache-strategy endpoint; start: Date.now() on entry, end: the clock
\* once the blog service has returned or thrown
PostsGET(e, mock, cached, outcome, start, end) ==
    LET f == fetchPostsWith(EndpointOptions(e), mock, cached, outcome) IN
    [resp |-> IF f.threw
              THEN [status |-> 500, body |-> PostsErrorBody(e, start, end),
                    headers |-> PostsErrorHeaders(e)]
              ELSE [status |-> 200, body |-> PostsOkBody(e, f.posts, start, end),
                    headers |-> PostsOkHeaders(e)],
     threw |-> f.threw,
     cached |-> f.cached,
     executed |-> f.executed,
     source |-> IF mock THEN MOCK_POSTS ELSE outcome.posts]

NoPostsRequest == [endpoint |-> "none"]

\* users are represented by their ids
MOCK_USERS == <<1, 2, 3>>

\* the ids getPost and getUser are called with: one that exists, one that
\* exists among the posts only, one that does not exist
ItemIds == {1, 4, 9}

\* what a function of the data source returns: a list, one item, or null
ListValue(items) == [kind |-> "list", items |-> items]
ItemValue(id) == [kind |-> "item", id |-> id]
NullValue == [kind |-> "null"]

\* MOCK_POSTS.find(p => p.id === id) || null
FindById(items, id) ==
    IF \E i \in 1..Len(items) : items[i] = id THEN ItemValue(id) ELSE NullValue

\* getPosts() and getUsers(): the mock list, or the list fetched; they throw
\* when fetch rejects or the response is not ok
GetList(mockList, mock, cached, outcome) ==
    IF mock
    THEN [threw |-> FALSE, value |-> ListValue(mockList), cached |-> cached,
          executed |-> FALSE]
    ELSE LET f == fetch(NoOptions, cached, outcome) IN
         [threw |-> f.outcome.kind # "ok",
          value |-> IF f.outcome.kind = "ok" THEN ListValue(f.outcome.posts) ELSE NullValue,
          cached |-> f.cached, executed |-> f.executed]

getUsers(mock, cached, outcome) == GetList(MOCK_USERS, mock, cached, outcome)

\* getPost(id) and getUser(id): the mock item or null; else the item fetched,
\* or null when the response is not ok; they throw when fetch rejects
GetItem(mockList, id, mock, cached, outcome) ==
    IF mock
    THEN [threw |-> FALSE, value |-> FindById(mockList, id), cached |-> cached,
          executed |-> FALSE]
    ELSE LET f == fetch(NoOptions, cached, outcome) IN
         [threw |-> f.outcome.kind = "reject",
          value |-> IF f.outcome.kind = "ok" THEN ItemValue(id) ELSE NullValue,
          cached |-> f.cached, executed |-> f.executed]

getPost(id, mock, cached, outcome) == GetItem(MOCK_POSTS, id, mock, cached, outcome)
getUser(id, mock, cached, outcome) == GetItem(MOCK_USERS, id, mock, cached, outcome)

\* the four strategies of the blog service and the options each passes
RevalidateOptions == [revalidate |-> 60]
Strategies ==
    {"fetchPostsWithNoCache", "fetchPostsWithForceCache",
     "fetchPostsWithRevalidate", "fetchPostsWithTags"}
StrategyOptions(strategy) ==
    IF strategy = "fetchPostsWithNoCache" THEN NoStoreOptions
    ELSE IF strategy = "fetchPostsWithForceCache" THEN ForceCacheOptions
    ELSE IF strategy = "fetchPostsWithRevalidate" THEN RevalidateOptions
    ELSE TagsOptions

\* the number of upstream fetches a call executed
Fetches(out) == IF out.executed THEN 1 ELSE 0

\* the title and the author of each post
PostTitle(id) ==
    IF id = 1 THEN <<"a", " ", "B">>
    ELSE IF id = 2 THEN <<"a", "-", "b">>
    ELSE IF id = 3 THEN <<"B">>
    ELSE IF id = 4 THEN <<"!", "B">>
    ELSE <<"a">>
PostUserId(id) == id

\* transformApiData: of each post the id, the slug made from its title, and the
\* author, 'Anonymous' when no user has the post's userId
transformApiData(posts, users) ==
    [i \in 1..Len(posts) |->
        [id |-> posts[i],
         slug |-> createSlug(PostTitle(posts[i])),
         author |-> IF \E k \in 1..Len(users) : users[k] = PostUserId(posts[i])
                    THEN "user" ELSE "Anonymous",
         tags |-> (i - 1) % 10]]

\* posts.slice(0, 10)
Slice10(ps) == SubSeq(ps, 1, IF Len(ps) < 10 THEN Len(ps) ELSE 10)

\* a variant without the try/catch
getBlogPosts_Uncaught(mock, cached, postsOutcome, usersOutcome) ==
    LET p == fetchPostsWith(TagsOptions, mock, cached, postsOutcome)
        u == getUsers(mock, p.cached, usersOutcome)
    IN [threw |-> p.threw \/ u.threw,
        value |-> IF p.threw \/ u.threw THEN ListValue(<<>>)
                  ELSE ListValue(transformApiData(Slice10(p.posts), u.value.items)),
        cached |-> u.cached,
        fetches |-> Fetches(p) + Fetches(u)]

\* getBlogPosts(): fetchPostsWithTags() and getUsers() are both started
\* (Promise.all); if either fails the catch block returns the empty list
getBlogPosts(mock, cached, postsOutcome, usersOutcome) ==
    LET p == fetchPostsWith(TagsOptions, mock, cached, postsOutcome)
        u == getUsers(mock, p.cached, usersOutcome)
    IN [threw |-> FALSE,
        value |-> IF p.threw \/ u.threw THEN ListValue(<<>>)
                  ELSE ListValue(transformApiData(Slice10(p.posts), u.value.items)),
        cached |-> u.cached,
        fetches |-> Fetches(p) + Fetches(u)]

\* allPosts.find(p => p.slug === slug): the first match, or null
FindBySlug(allPosts, slug) ==
    IF \E i \in 1..Len(allPosts) : allPosts[i].slug = slug
    THEN [kind |-> "post",
          post |-> allPosts[CHOOSE i \in 1..Len(allPosts) :
                              /\ allPosts[i].slug = slug
                              /\ \A j \in 1..(i - 1) : allPosts[j].slug # slug]]
    ELSE NullValue

\* getBlogPost(slug): getBlogPosts() does not throw, so neither does this
getBlogPost(slug, mock, cached, postsOutcome, usersOutcome) ==
    LET all == getBlogPosts(mock, cached, postsOutcome, usersOutcome) IN
    [threw |-> all.threw,
     value |-> IF all.threw THEN NullValue ELSE FindBySlug(all.value.items, slug),
     cached |-> all.cached, fetches |-> all.fetches]

\* the slugs getBlogPost is asked for: two that several posts share, one of a
\* single post, one of no post
Slugs == {<<"a", "-", "b">>, <<"b">>, <<"a">>, <<"b", "-">>}

NoDataSourceCall == [fn |-> "none"]

\* the bookkeeping of a direct call: the fetch cache and the fetch count
Called(record, out) ==
    /\ ds.loaded
    /\ fetchCount + out.fetches <= MaxFetches
    /\ dc' = record
    /\ fetchCache' = out.cached
    /\ fetchCount' = fetchCount + out.fetches
    /\ UNCHANGED <<ds, pr, prNow>>

\* the outcomes of the request for one item
ItemOutcomes == {o \in UpstreamOutcomes : o.posts = <<>>}

CallGetPosts ==
    \E outcome \in UpstreamOutcomes :
        LET out == getPosts(NoOptions, ds.USE_MOCK_DATA, fetchCache, outcome) IN
        Called([fn |-> "getPosts", mock |-> ds.USE_MOCK_DATA, outcome |-> outcome.kind,
                threw |-> out.threw,
                value |-> IF out.threw THEN NullValue ELSE ListValue(out.posts),
                executed |-> out.executed],
               [cached |-> out.cached, fetches |-> Fetches(out)])

CallGetUsers ==
    \E outcome \in UpstreamOutcomes :
        LET out == getUsers(ds.USE_MOCK_DATA, fetchCache, outcome) IN
        Called([fn |-> "getUsers", mock |-> ds.USE_MOCK_DATA, outcome |-> outcome.kind,
                threw |-> out.threw, value |-> out.value, executed |-> out.executed],
               [cached |-> out.cached, fetches |-> Fetches(out)])

CallGetPost ==
    \E id \in ItemIds, outcome \in ItemOutcomes :
        LET out == getPost(id, ds.USE_MOCK_DATA, fetchCache, outcome) IN
        Called([fn |-> "getPost", id |-> id, mock |-> ds.USE_MOCK_DATA,
                outcome |-> outcome.kind, threw |-> out.threw, value |-> out.value,
                executed |-> out.executed],
               [cached |-> out.cached, fetches |-> Fetches(out)])

CallGetUser ==
    \E id \in ItemIds, outcome \in ItemOutcomes :
        LET out == getUser(id, ds.USE_MOCK_DATA, fetchCache, outcome) IN
        Called([fn |-> "getUser", id |-> id, mock |-> ds.USE_MOCK_DATA,
                outcome |-> outcome.kind, threw |-> out.threw, value |-> out.value,
                executed |-> out.executed],
               [cached |-> out.cached, fetches |-> Fetches(out)])

\* the list the data source holds or is sent
SourceList(mockList, outcome) == IF ds.USE_MOCK_DATA THEN mockList ELSE outcome.posts

CallGetBlogPosts ==
    \E postsOutcome \in UpstreamOutcomes, usersOutcome \in UpstreamOutcomes :
        LET out == getBlogPosts(ds.USE_MOCK_DATA, fetchCache, postsOutcome, usersOutcome) IN
        Called([fn |-> "getBlogPosts", mock |-> ds.USE_MOCK_DATA,
                outcome |-> postsOutcome.kind, usersOutcome |-> usersOutcome.kind,
                posts |-> SourceList(MOCK_POSTS, postsOutcome),
                users |-> SourceList(MOCK_USERS, usersOutcome),
                threw |-> out.threw, value |-> out.value], out)

CallGetBlogPost ==
    \E slug \in Slugs, postsOutcome \in UpstreamOutcomes, usersOutcome \in UpstreamOutcomes :
        LET out == getBlogPost(slug, ds.USE_MOCK_DATA, fetchCache, postsOutcome,
                               usersOutcome) IN
        Called([fn |-> "getBlogPost", slug |-> slug, mock |-> ds.USE_MOCK_DATA,
                outcome |-> postsOutcome.kind, usersOutcome |-> usersOutcome.kind,
                posts |-> SourceList(MOCK_POSTS, postsOutcome),
                users |-> SourceList(MOCK_USERS, usersOutcome),
                threw |-> out.threw, value |-> out.value], out)

\* a call of one of the blog service's four strategies
CallFetchPostsWith ==
    \E strategy \in Strategies, outcome \in UpstreamOutcomes :
        LET out == fetchPostsWith(StrategyOptions(strategy), ds.USE_MOCK_DATA,
                                  fetchCache, outcome) IN
        Called([fn |-> strategy, mock |-> ds.USE_MOCK_DATA, outcome |-> outcome.kind,
                threw |-> out.threw,
                value |-> IF out.threw THEN NullValue ELSE ListValue(out.posts),
                executed |-> out.executed,
                fetchOptions |-> out.fetchOptions],
               [cached |-> out.cached, fetches |-> Fetches(out)])

InitPosts ==
    /\ ds = [loaded |-> FALSE, USE_MOCK_DATA |-> FALSE]
    /\ fetchCache = NotCached
    /\ fetchCount = 0
    /\ pr = NoPostsRequest
    /\ dc = NoDataSourceCall
    /\ prNow = 0

\* the data-source module is loaded: E2E_MOCK_DATA is read once
LoadDataSource ==
    /\ ~ds.loaded
    /\ \E mock \in BOOLEAN : ds' = [loaded |-> TRUE, USE_MOCK_DATA |-> mock]
    /\ UNCHANGED <<fetchCache, fetchCount, pr, dc, prNow>>

\* one GET of endpoint e, handled to completion; the record keeps what the
\* request before it was and returned (for the properties only)
HandlePostsGET(e) ==
    /\ ds.loaded
    /\ \E outcome \in UpstreamOutcomes, elapsed \in {0, 1} :
         /\ prNow + 1 + elapsed <= MaxPostClock
         /\ LET out == PostsGET(e, ds.USE_MOCK_DATA, fetchCache, outcome,
                                prNow + 1, prNow + 1 + elapsed)
            IN /\ pr' = [endpoint |-> e, resp |-> out.resp, threw |-> out.threw,
                         executed |-> out.executed, source |-> out.source,
                         prevEndpoint |-> pr.endpoint,
                         prevResp |-> IF pr = NoPostsRequest THEN NoHeaders ELSE pr.resp]
               /\ fetchCache' = out.cached
               /\ fetchCount' = fetchCount + (IF out.executed THEN 1 ELSE 0)
         /\ prNow' = prNow + 1 + elapsed
    /\ UNCHANGED <<ds, dc>>

(***************************************************************************)
(* The CDN demo page: fetchProbe, handleRevalidate and handleVerify.        *)
(***************************************************************************)
WARMUP_MAX_ATTEMPTS == 6
MAX_ATTEMPTS == 6

\* the Age header as res.headers.get('age') returns it
AgeHeaders == {Null, "0", "7", "abc"}

\* data.headers?.age ? parseInt(data.headers.age, 10) : null
AgeNull == [kind |-> "null", n |-> 0]
AgeNaN == [kind |-> "NaN", n |-> 0]
AgeNum(n) == [kind |-> "number", n |-> n]
AgeVal(h) ==
    IF h \in {Null, ""} THEN AgeNull
    ELSE IF h = "0" THEN AgeNum(0)
    ELSE IF h = "7" THEN AgeNum(7)
    ELSE AgeNaN

\* a variant of the loop condition that also goes on when the age is positive
AgeNotYetCached_OrPositive(a) == a.kind # "NaN"

\* ageVal === null || ageVal === 0
AgeNotYetCached(a) == a.kind = "null" \/ (a.kind = "number" /\ a.n = 0)

\* ageVal !== null && ageVal > 0
AgePositive(a) == a.kind = "number" /\ a.n > 0

\* what fetchCdnProbe() resolves to; generated_at is a reading of the server clock
GeneratedAts == {1, 2}
ProbeResults == {[generated_at |-> g, age |-> h] : g \in GeneratedAts, h \in AgeHeaders}
NoProbeResult == [generated_at |-> 0, age |-> Null]

\* err instanceof Error ? err.message : 'Unknown error'
FetchErrors == {"Failed to fetch", "Unknown error"}

\* what the GET of /api/revalidate comes to, as handleRevalidate sees it
RevalidateReplies ==
    {[ok |-> TRUE, text |-> "has been revalidated"],
     [ok |-> FALSE, text |-> "Failed to revalidate cache"]}

IdleRun ==
    [pc |-> "idle", attempt |-> 0, fetches |-> 0, delays |-> 0,
     baseline |-> NoProbeResult,
     positiveSeen |-> FALSE, changed |-> FALSE, error |-> FALSE, logged |-> "none"]

\* the values of revalidateResult
NoResult == [kind |-> "null", text |-> ""]
Result(kind, text) == [kind |-> kind, text |-> text]

InitDemo ==
    /\ page = [probeData |-> NoProbeResult, isProbing |-> FALSE, probeError |-> Null,
               revalidateResult |-> NoResult, isRevalidating |-> FALSE,
               beforeSnapshot |-> NoProbeResult, afterSnapshot |-> NoProbeResult,
               isVerifying |-> FALSE]
    /\ probeRun = IdleRun
    /\ revalRun = IdleRun
    /\ verifyRun = IdleRun
    /\ runsStarted = 0

\* ---- fetchProbe
\* the run starts (on mount, or from the "Fetch from CDN" button, which is
\* disabled while isProbing)
FetchProbeStart ==
    /\ ~page.isProbing
    /\ probeRun.pc \in {"idle", "ended"}
    /\ page' = [page EXCEPT !.isProbing = TRUE, !.probeError = Null]
    /\ probeRun' = [IdleRun EXCEPT !.pc = "fetch", !.logged = "Warming CDN"]
    /\ runsStarted < MaxRuns
    /\ runsStarted' = runsStarted + 1
    /\ UNCHANGED <<revalRun, verifyRun>>

\* after a successful fetch of the run: the loop condition, and either the
\* next poll or the end of the try block and the finally block
FetchProbeAfterFetch(run, data) ==
    IF run.attempt <= WARMUP_MAX_ATTEMPTS /\ AgeNotYetCached(AgeVal(data.age))
    THEN /\ probeRun' = [run EXCEPT !.pc = "poll", !.logged = "Waiting for CDN to cache"]
         /\ page' = [page EXCEPT !.probeData = data]
    ELSE /\ probeRun' = [run EXCEPT !.pc = "ended",
                                    !.logged = IF AgePositive(AgeVal(data.age))
                                               THEN "CDN cache confirmed"
                                               ELSE "Probe fetched"]
         /\ page' = [page EXCEPT !.probeData = data,
                                 !.beforeSnapshot = data,
                                 !.afterSnapshot = NoProbeResult,
                                 !.isProbing = FALSE]

\* a variant of the catch block that tries the fetch again
FetchProbeFailed_Retry(run, msg) ==
    /\ probeRun' = [run EXCEPT !.pc = "poll", !.logged = "Network error"]
    /\ page' = [page EXCEPT !.probeError = msg]

\* the catch and finally blocks of fetchProbe
FetchProbeFailed(run, msg) ==
    /\ probeRun' = [run EXCEPT !.pc = "ended", !.logged = "Network error"]
    /\ page' = [page EXCEPT !.probeError = msg, !.isProbing = FALSE]

\* a fetch of the run: the initial one, or a poll once its delay has elapsed
FetchProbeFetch ==
    /\ probeRun.pc \in {"fetch", "poll"}
    /\ LET polled == probeRun.pc = "poll"
           run == [probeRun EXCEPT !.fetches = @ + 1,
                                   !.delays = IF polled THEN @ + 1 ELSE @,
                                   !.attempt = @ + 1]
       IN \/ \E data \in ProbeResults :
               FetchProbeAfterFetch(
                   [run EXCEPT !.positiveSeen = @ \/ AgePositive(AgeVal(data.age))],
                   data)
          \/ \E msg \in FetchErrors : FetchProbeFailed([run EXCEPT !.error = TRUE], msg)
    /\ UNCHANGED <<revalRun, verifyRun, runsStarted>>

\* ---- handleRevalidate
\* a "Revalidate by ..." button, disabled while isRevalidating
HandleRevalidateStart ==
    /\ ~page.isRevalidating
    /\ revalRun.pc \in {"idle", "ended"}
    /\ page' = [page EXCEPT !.isRevalidating = TRUE, !.revalidateResult = NoResult]
    /\ revalRun' = [IdleRun EXCEPT !.pc = "fetch", !.logged = "Revalidating"]
    /\ runsStarted < MaxRuns
    /\ runsStarted' = runsStarted + 1
    /\ UNCHANGED <<probeRun, verifyRun>>

HandleRevalidateFetch ==
    /\ revalRun.pc = "fetch"
    /\ \/ \E reply \in RevalidateReplies :
            /\ page' = [page EXCEPT
                          !.revalidateResult =
                              IF reply.ok THEN Result("Success", reply.text)
                              ELSE Result("Error", reply.text),
                          !.isRevalidating = FALSE]
            /\ revalRun' = [revalRun EXCEPT
                              !.pc = "ended", !.fetches = @ + 1,
                              !.logged = IF reply.ok THEN "Revalidation succeeded"
                                         ELSE "Revalidation failed"]
       \/ \E msg \in FetchErrors :
            /\ page' = [page EXCEPT !.revalidateResult = Result("Error", msg),
                                    !.isRevalidating = FALSE]
            /\ revalRun' = [revalRun EXCEPT
                              !.pc = "ended", !.fetches = @ + 1, !.error = TRUE,
                              !.logged = "Revalidation error"]
    /\ UNCHANGED <<probeRun, verifyRun, runsStarted>>

\* ---- handleVerify
\* the "Fetch from CDN Again" button, disabled while isVerifying and while
\* there is no beforeSnapshot; the handler keeps the beforeSnapshot of the
\* render it was created in
HandleVerifyStart ==
    /\ ~page.isVerifying
    /\ page.beforeSnapshot # NoProbeResult
    /\ verifyRun.pc \in {"idle", "ended"}
    /\ page' = [page EXCEPT !.isVerifying = TRUE]
    /\ verifyRun' = [IdleRun EXCEPT !.pc = "fetch", !.attempt = 1,
                                    !.baseline = page.beforeSnapshot,
                                    !.logged = "Polling CDN"]
    /\ runsStarted < MaxRuns
    /\ runsStarted' = runsStarted + 1
    /\ UNCHANGED <<probeRun, revalRun>>

\* a variant of the loop body that gives up without recording the last result
VerifyAfterFetch_NoRecord(run, data) ==
    IF data.generated_at # run.baseline.generated_at
    THEN [run |-> [run EXCEPT !.pc = "ended", !.logged = "CDN purge confirmed"],
          record |-> TRUE]
    ELSE IF run.attempt = MAX_ATTEMPTS
    THEN [run |-> [run EXCEPT !.pc = "ended", !.logged = "CDN may not have propagated yet"],
          record |-> FALSE]
    ELSE [run |-> [run EXCEPT !.pc = "poll", !.attempt = @ + 1, !.logged = "still cached"],
          record |-> FALSE]

\* the loop body after a successful fetch: the run afterwards, and whether
\* the result is recorded (setAfterSnapshot, setProbeData)
VerifyAfterFetch(run, data) ==
    IF data.generated_at # run.baseline.generated_at
    THEN [run |-> [run EXCEPT !.pc = "ended", !.logged = "CDN purge confirmed"],
          record |-> TRUE]
    ELSE IF run.attempt = MAX_ATTEMPTS
    THEN [run |-> [run EXCEPT !.pc = "ended", !.logged = "CDN may not have propagated yet"],
          record |-> TRUE]
    ELSE [run |-> [run EXCEPT !.pc = "poll", !.attempt = @ + 1, !.logged = "still cached"],
          record |-> FALSE]

\* a fetch of the run: the first one, or the next once its delay has elapsed
HandleVerifyFetch ==
    /\ verifyRun.pc \in {"fetch", "poll"}
    /\ LET run == [verifyRun EXCEPT !.fetches = @ + 1,
                                    !.delays = IF verifyRun.pc = "poll" THEN @ + 1 ELSE @]
       IN \/ \E data \in ProbeResults :
               LET out == VerifyAfterFetch(
                              [run EXCEPT !.changed =
                                  (data.generated_at # run.baseline.generated_at)],
                              data) IN
               /\ verifyRun' = out.run
               /\ page' = [page EXCEPT
                             !.afterSnapshot = IF out.record THEN data ELSE @,
                             !.probeData = IF out.record THEN data ELSE @,
                             !.isVerifying = IF out.run.pc = "ended" THEN FALSE ELSE @]
          \/ \E msg \in FetchErrors :
               /\ verifyRun' = [run EXCEPT !.pc = "ended", !.error = TRUE,
                                           !.logged = "Verification error"]
               /\ page' = [page EXCEPT !.isVerifying = FALSE]
    /\ UNCHANGED <<probeRun, revalRun, runsStarted>>

(***************************************************************************)
(* The middleware: the pass-through of src/middleware.ts, and the one that  *)
(* also starts the waitUntil() background task.                             *)
(***************************************************************************)
TriggerPath == "/api/background-tasks/waituntil-trigger"
Paths == {TriggerPath, "/api/cdnprobe"}

\* searchParams.get('taskId'): null when absent
TaskIdParams == {Null, "", "t1", "t2"}
\* process.env.CACHE_BUCKET: undefined when not set
BucketNames == {Undefined, "", "cache-bucket"}

\* NextResponse.next(): the request goes on to the route handler; the
\* middleware sets no header
NextResponseNext == [kind |-> "next", headers |-> NoHeaders]

\* src/middleware.ts
middlewarePassThrough(request) == [resp |-> NextResponseNext, register |-> FALSE]

\* a variant that registers the task whenever a bucket is configured
ShouldRegister_AnyTaskId(request, bucketName) ==
    request.pathname = TriggerPath /\ ~Falsy(bucketName)

\* pathname === '/api/background-tasks/waituntil-trigger' and taskId && bucketName
ShouldRegister(request, bucketName) ==
    request.pathname = TriggerPath /\ ~Falsy(request.taskId) /\ ~Falsy(bucketName)

\* a variant that sets the CDN header itself
middleware_SetsSurrogateKey(request, bucketName) ==
    [resp |-> [kind |-> "next", headers |-> [SurrogateKey |-> "cdnprobe"]],
     register |-> ShouldRegister(request, bucketName)]

\* the middleware with the waitUntil() test: whether a task is registered, and
\* the response, which does not depend on it
middleware(request, bucketName) ==
    [resp |-> NextResponseNext, register |-> ShouldRegister(request, bucketName)]

\* the object a task writes: background-tasks/<taskId>.json
ObjectName(taskId) == <<"background-tasks/", taskId, ".json">>
ObjectNames == {ObjectName(t) : t \in TaskIdParams \ {Null}}
NoObject == [none |-> TRUE]

taskData(taskId) ==
    [taskId |-> taskId, type |-> "waitUntil", completed |-> TRUE, source |-> "middleware"]
errorData(taskId, message) ==
    [taskId |-> taskId, type |-> "waitUntil", completed |-> FALSE, source |-> "middleware",
     error |-> message]

\* what file.save comes to
SaveErrors == {"bucket not found", "permission denied"}

NoMiddlewareRequest == [file |-> "none"]

InitMiddleware ==
    /\ mw = NoMiddlewareRequest
    /\ tasks = <<>>
    /\ objects = [o \in ObjectNames |-> NoObject]

\* a task as event.waitUntil receives it: the async function has run up to its
\* first await, the save of the completed record
NewTask(taskId, bucketName) ==
    [taskId |-> taskId, bucket |-> bucketName, pc |-> "save", error |-> Null,
     saves |-> <<>>, rejected |-> FALSE]

\* one request through the middleware of src/middleware.ts
MiddlewarePassThrough ==
    \E path \in Paths, taskId \in TaskIdParams, bucketName \in BucketNames :
        LET request == [pathname |-> path, taskId |-> taskId]
            out == middlewarePassThrough(request)
        IN /\ mw' = [file |-> "src/middleware.ts", request |-> request,
                     bucketName |-> bucketName, resp |-> out.resp,
                     registered |-> out.register, pending |-> Len(tasks)]
           /\ UNCHANGED <<tasks, objects>>

\* one request through the middleware with the waitUntil() test; it returns
\* while the task it registered is still at its first await
MiddlewareWaitUntil ==
    \E path \in Paths, taskId \in TaskIdParams, bucketName \in BucketNames :
        LET request == [pathname |-> path, taskId |-> taskId]
            out == middleware(request, bucketName)
        IN /\ out.register => Len(tasks) < MaxTasks
           /\ tasks' = IF out.register THEN Append(tasks, NewTask(taskId, bucketName))
                       ELSE tasks
           /\ mw' = [file |-> "middleware (waitUntil)", request |-> request,
                     bucketName |-> bucketName, resp |-> out.resp,
                     registered |-> out.register, pending |-> Len(tasks')]
           /\ UNCHANGED objects

\* the first save failed: the catch block runs up to the save of the error record
TaskSaveFailed(task, message) ==
    [task EXCEPT !.pc = "saveError", !.error = message,
                 !.saves = Append(@, [completed |-> TRUE, ok |-> FALSE])]

\* the save of the completed record returns or throws
TaskSave ==
    \E i \in 1..Len(tasks) :
        /\ tasks[i].pc = "save"
        /\ \/ /\ objects' = [objects EXCEPT ![ObjectName(tasks[i].taskId)] =
                                               taskData(tasks[i].taskId)]
              /\ tasks' = [tasks EXCEPT ![i] =
                             [@ EXCEPT !.pc = "ended",
                                       !.saves = Append(@, [completed |-> TRUE, ok |-> TRUE])]]
           \/ \E message \in SaveErrors :
                /\ tasks' = [tasks EXCEPT ![i] = TaskSaveFailed(@, message)]
                /\ UNCHANGED objects
        /\ UNCHANGED mw

\* the save of the error record returns, or throws into the inner catch
TaskSaveError ==
    \E i \in 1..Len(tasks) :
        /\ tasks[i].pc = "saveError"
        /\ \/ /\ objects' = [objects EXCEPT ![ObjectName(tasks[i].taskId)] =
                                               errorData(tasks[i].taskId, tasks[i].error)]
              /\ tasks' = [tasks EXCEPT ![i] =
                             [@ EXCEPT !.pc = "ended",
                                       !.saves = Append(@, [completed |-> FALSE, ok |-> TRUE])]]
           \/ /\ tasks' = [tasks EXCEPT ![i] =
                             [@ EXCEPT !.pc = "ended",
                                       !.saves = Append(@, [completed |-> FALSE, ok |-> FALSE])]]
              /\ UNCHANGED objects
        /\ UNCHANGED mw

(***************************************************************************)
(* GET /api/cdn-proxy.  Strings are sequences of pieces; a query parameter  *)
(* or header is absent or has a value.                                      *)
(***************************************************************************)
Absent == [present |-> FALSE, value |-> <<>>]
Present(str) == [present |-> TRUE, value |-> str]

NO_CACHE_HEADERS ==
    [CacheControl |-> <<"private", "no-cache", "no-store", "max-age=0", "must-revalidate">>,
     Pragma |-> "no-cache",
     Expires |-> "0"]

\* !v for a string that may be absent
Empty(v) == ~v.present \/ v.value = <<>>

\* path.startsWith('/')
StartsWithSlash(str) == str # <<>> /\ str[1] = "/"

\* baseUrl.replace(/\/+$/, '')
RECURSIVE StripTrailingSlashes(_)
StripTrailingSlashes(str) ==
    IF str # <<>> /\ str[Len(str)] = "/"
    THEN StripTrailingSlashes(SubSeq(str, 1, Len(str) - 1))
    ELSE str

\* the requests: the path parameter, the Host and X-Forwarded-Proto headers,
\* and NEXT_PUBLIC_SITE_URL
ProxyPaths ==
    {Absent, Present(<<>>), Present(<<"api", "/", "cdnprobe">>),
     Present(<<"/", "api", "/", "cdnprobe">>)}
ProxyHosts == {Absent, Present(<<>>), Present(<<"app.example">>)}
ProxyProtos == {Absent, Present(<<"http">>)}
SiteUrls == {Absent, Present(<<>>), Present(<<"https://", "site.example", "/", "/">>)}

ProxyResponse(status, body) == [status |-> status, body |-> body, headers |-> NO_CACHE_HEADERS]

\* a variant that accepts any non-empty path
ProxyStart_AnyPath(request, siteUrl) ==
    IF Empty(request.path)
    THEN [fetch |-> FALSE,
          resp |-> ProxyResponse(400, [error |-> "path query parameter is required and must start with /"])]
    ELSE IF Empty(siteUrl) /\ Empty(request.host)
    THEN [fetch |-> FALSE,
          resp |-> ProxyResponse(500, [error |-> "Cannot determine public URL"])]
    ELSE LET proto == IF Empty(request.proto) THEN <<"https">> ELSE request.proto.value
             baseUrl == IF Empty(siteUrl) THEN proto \o <<"://">> \o request.host.value
                        ELSE siteUrl.value
         IN [fetch |-> TRUE, targetUrl |-> StripTrailingSlashes(baseUrl) \o request.path.value]

\* GET up to the fetch: the 400 and 500 responses, or the target URL
ProxyStart(request, siteUrl) ==
    IF Empty(request.path) \/ ~StartsWithSlash(request.path.value)
    THEN [fetch |-> FALSE,
          resp |-> ProxyResponse(400, [error |-> "path query parameter is required and must start with /"])]
    ELSE IF Empty(siteUrl) /\ Empty(request.host)
    THEN [fetch |-> FALSE,
          resp |-> ProxyResponse(500, [error |-> "Cannot determine public URL"])]
    ELSE LET proto == IF Empty(request.proto) THEN <<"https">> ELSE request.proto.value
             baseUrl == IF Empty(siteUrl) THEN proto \o <<"://">> \o request.host.value
                        ELSE siteUrl.value
         IN [fetch |-> TRUE, targetUrl |-> StripTrailingSlashes(baseUrl) \o request.path.value]

\* the catch block
ProxyFailed(targetUrl, message) ==
    ProxyResponse(502, [error |-> <<"Failed to fetch ", targetUrl, message>>])

\* what the outbound fetch resolves to: the upstream status and content type
UpstreamResponses ==
    {[status |-> st, json |-> j] : st \in {200, 404}, j \in BOOLEAN}

NoProxyRequest == [pc |-> "none"]

InitCdnProxy == px = NoProxyRequest

\* a request arrives: it is answered at once, or the timer is set and the
\* fetch started
ProxyGET ==
    /\ px.pc \in {"none", "responded"}
    /\ \E path \in ProxyPaths, host \in ProxyHosts, proto \in ProxyProtos,
          siteUrl \in SiteUrls :
         LET request == [path |-> path, host |-> host, proto |-> proto]
             out == ProxyStart(request, siteUrl)
         IN px' = IF out.fetch
                  THEN [pc |-> "fetching", request |-> request, siteUrl |-> siteUrl,
                        targetUrl |-> out.targetUrl, fetched |-> TRUE,
                        timer |-> "set", aborted |-> FALSE, clears |-> 0]
                  ELSE [pc |-> "responded", request |-> request, siteUrl |-> siteUrl,
                        resp |-> out.resp, fetched |-> FALSE,
                        timer |-> "none", aborted |-> FALSE, clears |-> 0,
                        cause |-> "none"]

\* clearTimeout(timeoutId): a timer that has not fired yet is cancelled
ClearTimeout(timer) == IF timer = "set" THEN "cleared" ELSE timer

\* 10 s have passed: controller.abort()
ProxyTimeout ==
    /\ px.pc = "fetching" /\ px.timer = "set"
    /\ px' = [px EXCEPT !.timer = "fired", !.aborted = TRUE]

\* the fetch resolves with the upstream response; the timer is cleared
ProxyFetchResolves ==
    /\ px.pc = "fetching" /\ ~px.aborted
    /\ \E response \in UpstreamResponses :
         px' = [pc |-> "reading", request |-> px.request, siteUrl |-> px.siteUrl,
                targetUrl |-> px.targetUrl, fetched |-> TRUE,
                timer |-> ClearTimeout(px.timer), aborted |-> FALSE,
                clears |-> px.clears + 1, response |-> response]

\* the fetch rejects: a network error, or the abort
ProxyFetchRejects ==
    /\ px.pc = "fetching"
    /\ \E message \in IF px.aborted THEN {"This operation was aborted"}
                      ELSE {"fetch failed"} :
         px' = [pc |-> "responded", request |-> px.request, siteUrl |-> px.siteUrl,
                resp |-> ProxyFailed(px.targetUrl, message), fetched |-> TRUE,
                timer |-> ClearTimeout(px.timer), aborted |-> px.aborted,
                clears |-> px.clears + 1, cause |-> "fetch"]

\* response.json() or response.text() returns or throws
ProxyReadBody ==
    /\ px.pc = "reading"
    /\ \/ px' = [pc |-> "responded", request |-> px.request, siteUrl |-> px.siteUrl,
                 resp |-> ProxyResponse(200,
                             [body |-> IF px.response.json THEN "json" ELSE "text",
                              status |-> px.response.status,
                              target_url |-> px.targetUrl]),
                 fetched |-> TRUE, timer |-> px.timer, aborted |-> FALSE,
                 clears |-> px.clears, cause |-> "none"]
       \/ px' = [pc |-> "responded", request |-> px.request, siteUrl |-> px.siteUrl,
                 resp |-> ProxyFailed(px.targetUrl, "Unexpected end of JSON input"),
                 fetched |-> TRUE, timer |-> ClearTimeout(px.timer), aborted |-> FALSE,
                 clears |-> px.clears + 1, cause |-> "body"]

(***************************************************************************)
(* The specifications.                                                      *)
(***************************************************************************)
Init ==
    /\ InitRevalidate /\ InitWrappedGet /\ InitProbe /\ InitPosts /\ InitDemo
    /\ InitUtil
    /\ InitMiddleware
    /\ InitCdnProxy

Next ==
    \/ StartWrapped
    \/ StartExplicit
    \/ DoLookup
    \/ DoGenerate
    \/ DoBackgroundRegen
    \/ DoRespond
    \/ DoWrap
    \/ RevalidateByGET
    \/ RevalidateByPOST

Spec == Init /\ [][Next]_vars

NextSequential ==
    \/ StartWrappedNext
    \/ StartExplicitNext
    \/ DoLookup
    \/ DoGenerate
    \/ DoBackgroundRegen
    \/ DoRespond
    \/ DoWrap
    \/ RevalidateByGET
    \/ RevalidateByPOST

SpecSequential == Init /\ [][NextSequential]_vars

RevalidateGETRequest == HandleRevalidateGET /\ UNCHANGED exceptRevalidate
RevalidatePOSTRequest == HandleRevalidatePOST /\ UNCHANGED exceptRevalidate

NextRevalidate == RevalidateGETRequest \/ RevalidatePOSTRequest

SpecRevalidate == Init /\ [][NextRevalidate]_vars

WrappedGetCall == CallWrappedGet /\ UNCHANGED exceptWrappedGet
WrappedGetNewRequest == NewRequestContext /\ UNCHANGED exceptWrappedGet

WrappedGetModuleEvaluation == EvaluateModule /\ UNCHANGED exceptWrappedGet

NextWrappedGet == WrappedGetCall \/ WrappedGetNewRequest \/ WrappedGetModuleEvaluation

SpecWrappedGet == Init /\ [][NextWrappedGet]_vars

DataSourceLoad == LoadDataSource /\ UNCHANGED exceptPosts
GetForceCache == HandlePostsGET("force-cache") /\ UNCHANGED exceptPosts
GetNoCache == HandlePostsGET("no-cache") /\ UNCHANGED exceptPosts
GetWithTags == HandlePostsGET("with-tags") /\ UNCHANGED exceptPosts

NextPosts == DataSourceLoad \/ GetForceCache \/ GetNoCache \/ GetWithTags

SpecPosts == Init /\ [][NextPosts]_vars

GetPostsCall == CallGetPosts /\ UNCHANGED exceptPosts
GetPostCall == CallGetPost /\ UNCHANGED exceptPosts
GetUsersCall == CallGetUsers /\ UNCHANGED exceptPosts
GetUserCall == CallGetUser /\ UNCHANGED exceptPosts
FetchPostsWithCall == CallFetchPostsWith /\ UNCHANGED exceptPosts
GetBlogPostsCall == CallGetBlogPosts /\ UNCHANGED exceptPosts
GetBlogPostCall == CallGetBlogPost /\ UNCHANGED exceptPosts

NextDataSource ==
    \/ DataSourceLoad
    \/ GetPostsCall \/ GetPostCall \/ GetUsersCall \/ GetUserCall
    \/ FetchPostsWithCall \/ GetBlogPostsCall \/ GetBlogPostCall

SpecDataSource == Init /\ [][NextDataSource]_vars

ProbeStart == FetchProbeStart /\ UNCHANGED exceptDemo
ProbeFetch == FetchProbeFetch /\ UNCHANGED exceptDemo
RevalidateStart == HandleRevalidateStart /\ UNCHANGED exceptDemo
RevalidateFetch == HandleRevalidateFetch /\ UNCHANGED exceptDemo
VerifyStart == HandleVerifyStart /\ UNCHANGED exceptDemo
VerifyFetch == HandleVerifyFetch /\ UNCHANGED exceptDemo

NextDemo ==
    \/ ProbeStart
    \/ ProbeFetch
    \/ RevalidateStart
    \/ RevalidateFetch
    \/ VerifyStart
    \/ VerifyFetch

SpecDemo == Init /\ [][NextDemo]_vars

\* every fetch returns or fails, and every delay elapses
SpecDemoFair == SpecDemo /\ WF_vars(ProbeFetch)

\* a call of calculateReadingTime; the record keeps the call before it
CallCalculateReadingTime ==
    \E text \in Texts :
        rt' = [fn |-> "calculateReadingTime", text |-> text,
               result |-> calculateReadingTime(text),
               prevText |-> IF rt.fn = "calculateReadingTime" THEN rt.text ELSE text,
               prevResult |-> IF rt.fn = "calculateReadingTime" THEN rt.result
                              ELSE calculateReadingTime(text)]

CreateSlugCall == CallCreateSlug /\ UNCHANGED <<exceptUtil, rt>>
CreateExcerptCall == CallCreateExcerpt /\ UNCHANGED <<exceptUtil, rt>>

NextUtil == CreateSlugCall \/ CreateExcerptCall

SpecUtil == Init /\ [][NextUtil]_vars

CalculateReadingTimeCall == CallCalculateReadingTime /\ UNCHANGED <<exceptUtil, util>>

NextReadingTime == CalculateReadingTimeCall

SpecReadingTime == Init /\ [][NextReadingTime]_vars

PassThroughRequest == MiddlewarePassThrough /\ UNCHANGED exceptMiddleware
WaitUntilRequest == MiddlewareWaitUntil /\ UNCHANGED exceptMiddleware
BackgroundSave == TaskSave /\ UNCHANGED exceptMiddleware
BackgroundSaveError == TaskSaveError /\ UNCHANGED exceptMiddleware

NextMiddleware ==
    PassThroughRequest \/ WaitUntilRequest \/ BackgroundSave \/ BackgroundSaveError

SpecMiddleware == Init /\ [][NextMiddleware]_vars

CdnProxyGET == ProxyGET /\ UNCHANGED exceptCdnProxy
CdnProxyTimeout == ProxyTimeout /\ UNCHANGED exceptCdnProxy
CdnProxyFetchResolves == ProxyFetchResolves /\ UNCHANGED exceptCdnProxy
CdnProxyFetchRejects == ProxyFetchRejects /\ UNCHANGED exceptCdnProxy
CdnProxyReadBody == ProxyReadBody /\ UNCHANGED exceptCdnProxy

NextCdnProxy ==
    \/ CdnProxyGET \/ CdnProxyTimeout \/ CdnProxyFetchResolves
    \/ CdnProxyFetchRejects \/ CdnProxyReadBody

SpecCdnProxy == Init /\ [][NextCdnProxy]_vars

(***************************************************************************)
(* Properties.                                                              *)
(***************************************************************************)
IsDone(r) == req[r].pc = "done"
IsWrapped(r) == req[r].route \in WrappedRoutes
HeaderTags(r) == Range(req[r].surrogate)

\* C1 (as claimed): once the probe's entry is cached, the GET of the probe
\* endpoint that comes right after a revalidateTag('cdnprobe', 'max') request
\* carries a nonce different from, and a generated_at strictly greater than,
\* those of the GET served before the revalidation.
C1_NextGetAfterRevalidateTagIsFresh ==
    \A r \in Reqs :
        (IsDone(r) /\ req[r].follows = "tag" /\ req[r].alone)
        => /\ req[r].data.nonce # req[r].prev.nonce
           /\ req[r].data.generated_at > req[r].prev.generated_at

\* C2 (as claimed): of two consecutive GETs of the probe endpoint that do not
\* overlap any request, with the entry cached and no revalidation between
\* them, the second has the body of the first.
C2_ConsecutiveGetsIdentical ==
    \A r \in Reqs :
        (IsDone(r) /\ req[r].follows = "quiet" /\ req[r].alone)
        => req[r].data = req[r].prev

\* C3 (as claimed): every response of a probe endpoint carries a
\* Surrogate-Key header that contains the tag 'cdnprobe', on a hit and on a miss.
C3_EveryProbeResponseHasSurrogateKey ==
    \A r \in Reqs :
        IsDone(r) => (req[r].surrogateSet /\ "cdnprobe" \in HeaderTags(r))

\* C4: on a wrapped route the Surrogate-Key header is set only once the
\* handler has returned its response, it is set on every response emitted, and
\* it contains every tag of the entry the request's own cache hit returned.
C4_OwnHitTagsInHeaderAfterHandler ==
    \A r \in Reqs :
        IsWrapped(r)
        => /\ req[r].surrogateSet => IsDone(r)
           /\ IsDone(r) => /\ req[r].surrogateSet
                           /\ Range(req[r].hitTags) \subseteq HeaderTags(r)

\* a wrapped request served from the cache has been emitted with its tag
C4_Witness ==
    \E r \in Reqs :
        /\ IsWrapped(r) /\ IsDone(r) /\ req[r].hit
        /\ req[r].hitTags # <<>>
        /\ Range(req[r].hitTags) \subseteq HeaderTags(r)

\* C5: wrappedGet changes a tag buffer exactly when the underlying get
\* returned an entry with a non-empty tags list; then the tags are appended to
\* the request-scoped context if it is active and to the process-wide buffer
\* otherwise, never to both; the value returned is the underlying get's.
C5_WrappedGetFrame ==
    wg.called
    => /\ (wgCtx # wg.ctxBefore \/ wgGlobal # wg.globBefore) <=> IsTaggedHit(wg.result)
       /\ (IsTaggedHit(wg.result) /\ wg.active)
            => (wgCtx = wg.ctxBefore \o wg.result.tags /\ wgGlobal = wg.globBefore)
       /\ (IsTaggedHit(wg.result) /\ ~wg.active)
            => (wgGlobal = wg.globBefore \o wg.result.tags /\ wgCtx = wg.ctxBefore)
       /\ wg.ret = wg.result

\* a tagged hit without an active context has grown the process-wide buffer,
\* which already held tags, and left the context alone
C5_Witness ==
    /\ wg.called /\ IsTaggedHit(wg.result) /\ ~wg.active
    /\ wg.globBefore # <<>>
    /\ wgGlobal = wg.globBefore \o wg.result.tags
    /\ wgCtx = wg.ctxBefore

\* C6: on the fallback path, the tags that the cache hit of a request B pushes
\* while a request A is in flight are in the Surrogate-Key header of A's
\* response; C6_Witness is the interleaving in which such a tag is one that
\* only B's hit produced.
C6_ConcurrentHitTagsLeak ==
    \A a \in Reqs, b \in Reqs :
        (/\ a # b
         /\ IsWrapped(a) /\ IsDone(a) /\ ~req[a].active
         /\ req[b].hit /\ ~req[b].active
         /\ a \in req[b].pushedWith)
        => Range(req[b].hitTags) \subseteq HeaderTags(a)

\* A missed the cache, B hit it while A was in flight, and A's header carries
\* a tag that no lookup but B's returned
C6_Witness ==
    \E a \in Reqs, b \in Reqs :
        /\ a # b
        /\ IsWrapped(a) /\ IsDone(a) /\ ~req[a].active /\ ~req[a].hit
        /\ req[b].hit /\ ~req[b].active
        /\ a \in req[b].pushedWith
        /\ \E t \in HeaderTags(a) :
              /\ t \in Range(req[b].hitTags)
              /\ \A c \in Reqs \ {b} : t \notin Range(req[c].hitTags)

\* C7 (as claimed): of two strictly sequential requests, the Surrogate-Key of
\* the second holds no tag that was captured only while serving the first.
C7_NoTagsFromEarlierResponse ==
    \A r1 \in Reqs, r2 \in Reqs :
        (/\ r1 < r2
         /\ IsDone(r1) /\ req[r1].alone
         /\ IsDone(r2) /\ req[r2].alone /\ IsWrapped(r2))
        => \A t \in HeaderTags(r2) :
              ~(t \in Range(req[r1].hitTags) /\ t \notin Range(req[r2].hitTags))

IsGet == rv.method = "GET"
IsPost == rv.method = "POST"

\* C8: a GET /revalidate with a non-empty tag and a non-empty path invokes
\* revalidatePath once with the path and never revalidateTag; it answers 200
\* unless the primitive raised, and the 200 body echoes the path with method
\* 'revalidatePath' and has no tag field.
C8_PathTakesPrecedence ==
    (IsGet /\ ~Falsy(rv.tag) /\ ~Falsy(rv.path))
    => /\ rv.calls = <<revalidatePath(rv.path)>>
       /\ \A i \in 1..Len(rv.calls) : rv.calls[i].fn # "revalidateTag"
       /\ rv.resp.status = (IF rv.throws THEN 500 ELSE 200)
       /\ rv.resp.status = 200
            => /\ "path" \in DOMAIN rv.resp.body
               /\ rv.resp.body.path = rv.path
               /\ rv.resp.body.method = "revalidatePath"
               /\ "tag" \notin DOMAIN rv.resp.body

C8_Witness ==
    /\ IsGet /\ ~Falsy(rv.tag) /\ ~Falsy(rv.path)
    /\ rv.resp.status = 200
    /\ rv.resp.body.path = rv.path

\* the request names no target: a GET with neither tag nor path (absent or
\* empty), a POST whose body is JSON and has no tag or an empty one
NamesNoTarget ==
    \/ IsGet /\ Falsy(rv.tag) /\ Falsy(rv.path)
    \/ IsPost /\ rv.postBody.kind # "invalid" /\ Falsy(PostBodyTag(rv.postBody))

\* C9 (as claimed): a revalidation request that names no target is answered
\* 400 and invokes neither revalidateTag nor revalidatePath.
C9_NoTargetIs400 ==
    NamesNoTarget => (rv.resp.status = 400 /\ rv.calls = <<>>)

HasTimestamp == 
    /\ "revalidated_at" \in DOMAIN rv.resp.body
    /\ rv.resp.body.revalidated_at = rv.t

\* C10: when the primitive does not raise, GET /revalidate with a non-empty
\* path answers 200, echoes the path and has invoked revalidatePath exactly
\* once with it; with a non-empty tag and no path it answers 200, echoes the
\* tag and has invoked revalidateTag exactly once with it; both bodies carry
\* the server's clock as revalidated_at.
C10_RevalidateGetSuccess ==
    (IsGet /\ ~rv.throws)
    => /\ ~Falsy(rv.path)
            => /\ rv.resp.status = 200
               /\ "path" \in DOMAIN rv.resp.body
               /\ rv.resp.body.path = rv.path
               /\ rv.calls = <<revalidatePath(rv.path)>>
               /\ HasTimestamp
       /\ (Falsy(rv.path) /\ ~Falsy(rv.tag))
            => /\ rv.resp.status = 200
               /\ "tag" \in DOMAIN rv.resp.body
               /\ rv.resp.body.tag = rv.tag
               /\ rv.calls = <<revalidateTag(rv.tag)>>
               /\ HasTimestamp

\* a tag with an empty path parameter has been revalidated by tag
C10_Witness ==
    /\ IsGet /\ ~rv.throws
    /\ rv.path = "" /\ ~Falsy(rv.tag)
    /\ rv.resp.status = 200
    /\ rv.resp.body.tag = rv.tag
    /\ rv.calls = <<revalidateTag(rv.tag)>>

\* an exception was raised while the request was handled: the primitive
\* invoked raised, or (POST) request.json() rejected or the destructuring of
\* the body raised
ExceptionRaised ==
    \/ rv.method \in {"GET", "POST"} /\ rv.throws /\ rv.calls # <<>>
    \/ IsPost /\ rv.postBody.kind \in {"invalid", "null"}

\* C11: whenever an exception is raised while a revalidation request is
\* handled (the primitive raising in GET or POST, the POST body not parsing),
\* the handler still returns a response; it is a 500 whose body is the generic
\* error 'Failed to revalidate cache', never a 200 confirmation.
C11_ExceptionIs500 ==
    ExceptionRaised
    => /\ rv.resp.status = 500
       /\ rv.resp.body = [error |-> "Failed to revalidate cache"]
       /\ "message" \notin DOMAIN rv.resp.body

\* a POST whose body is not JSON has been answered 500
C11_Witness ==
    /\ IsPost /\ rv.postBody.kind = "invalid"
    /\ rv.resp.status = 500
    /\ rv.resp.body.error = "Failed to revalidate cache"
    /\ rv.calls = <<>>

PostsHandled == pr.endpoint \in PostsEndpoints
PostsHeaders == pr.resp.headers

\* C12 (as claimed): with the remote data source, the second of two successive
\* successful GET /posts/no-cache requests executes the upstream fetch again,
\* while the second of two successive GET /posts/force-cache requests executes
\* no upstream fetch and returns the data of the first.
C12_NoCacheRefetchesForceCacheReuses ==
    (/\ PostsHandled /\ ~ds.USE_MOCK_DATA
     /\ pr.prevEndpoint = pr.endpoint
     /\ pr.prevResp.status = 200)
    => /\ pr.endpoint = "no-cache" => pr.executed
       /\ pr.endpoint = "force-cache"
            => /\ ~pr.executed
               /\ pr.resp.status = 200
               /\ pr.resp.body.data = pr.prevResp.body.data

\* C13: when the data source raises, a cache-strategy endpoint answers 500
\* with a body that has error, cache_strategy, duration_ms and fetched_at and
\* no data; a 200 body with data is returned only when the data source call
\* succeeded.
C13_DataSourceFailureIs500 ==
    PostsHandled
    => /\ pr.threw
            => /\ pr.resp.status = 500
               /\ {"error", "cache_strategy", "duration_ms", "fetched_at"}
                      \subseteq DOMAIN pr.resp.body
               /\ "data" \notin DOMAIN pr.resp.body
       /\ (pr.resp.status = 200 /\ "data" \in DOMAIN pr.resp.body) => ~pr.threw
       /\ pr.resp.status \in {200, 500}

\* the with-tags endpoint has answered a failed upstream request
C13_Witness ==
    /\ PostsHandled /\ pr.endpoint = "with-tags" /\ pr.threw
    /\ pr.resp.status = 500
    /\ pr.resp.body.cache_strategy = "tags-revalidate-5m"

\* C14: every 200 response of a cache-strategy endpoint has Cache-Control with
\* no-store, Pragma: no-cache and Expires: 0, and its data is the first
\* records of the data source's result, in order, three at most.
C14_OkIsNoStoreAndTruncated ==
    (PostsHandled /\ pr.resp.status = 200)
    => /\ "no-store" \in Range(PostsHeaders.CacheControl)
       /\ PostsHeaders.Pragma = "no-cache"
       /\ PostsHeaders.Expires = "0"
       /\ Len(pr.resp.body.data) <= 3
       /\ Len(pr.resp.body.data) <= Len(pr.source)
       /\ pr.resp.body.data = SubSeq(pr.source, 1, Len(pr.resp.body.data))
       /\ Len(pr.resp.body.data) < 3 => pr.resp.body.data = pr.source

\* a source result of more than three records has been cut to its first three
C14_Witness ==
    /\ PostsHandled /\ pr.resp.status = 200
    /\ Len(pr.source) > 3
    /\ Len(pr.resp.body.data) = 3
    /\ pr.resp.body.data = SubSeq(pr.source, 1, 3)

\* C15: a fetchProbe run performs at most 7 fetches, one initial and at most
\* 6 polls, each poll after a delay; it goes on to a further fetch only while
\* no age observed in the run was a positive number; isProbing is false once
\* it has ended; and, every fetch returning or failing, a run that has
\* started ends.
C15_ProbeBounds ==
    /\ probeRun.fetches <= 1 + WARMUP_MAX_ATTEMPTS
    /\ probeRun.delays <= WARMUP_MAX_ATTEMPTS
    /\ probeRun.fetches > 0 => probeRun.delays = probeRun.fetches - 1
    /\ probeRun.pc = "poll" => ~probeRun.positiveSeen
    /\ probeRun.pc = "ended" => ~page.isProbing

C15_FetchProbeTerminates ==
    /\ []C15_ProbeBounds
    /\ (probeRun.pc \in {"fetch", "poll"}) ~> (probeRun.pc = "ended")

\* a run has ended after its initial fetch and all of its 6 polls
C15_Witness ==
    /\ probeRun.pc = "ended" /\ ~probeRun.error
    /\ probeRun.fetches = 1 + WARMUP_MAX_ATTEMPTS
    /\ ~page.isProbing

\* C16: a handleVerify run performs at most 6 fetches; it goes on after a
\* fetch only if the generated_at fetched equals that of the baseline (the
\* beforeSnapshot stored when the run started); it ends at the first fetch
\* that differs or at the 6th, in both cases with that result as afterSnapshot,
\* at the 6th with the report that the purge may not have propagated and no
\* error; isVerifying is false once it has ended.
C16_VerifyBounds ==
    /\ verifyRun.fetches <= MAX_ATTEMPTS
    /\ verifyRun.pc = "poll" => (~verifyRun.changed /\ verifyRun.fetches < MAX_ATTEMPTS)
    /\ (verifyRun.pc = "ended" /\ ~verifyRun.error)
         => /\ verifyRun.changed \/ verifyRun.fetches = MAX_ATTEMPTS
            /\ ~verifyRun.changed => verifyRun.logged = "CDN may not have propagated yet"
    /\ verifyRun.pc = "ended" => ~page.isVerifying

C16_VerifyEnds ==
    (verifyRun.pc # "ended" /\ verifyRun'.pc = "ended" /\ ~verifyRun'.error)
    => /\ page'.afterSnapshot # NoProbeResult
       /\ (page'.afterSnapshot.generated_at # verifyRun'.baseline.generated_at)
              = verifyRun'.changed

C17_AtMostOneRunInProgress ==
    /\ ~(page.isProbing /\ page.isRevalidating)
    /\ ~(page.isProbing /\ page.isVerifying)
    /\ ~(page.isRevalidating /\ page.isVerifying)

\* C18: the step in which a fetch of a run fails ends the run: its in-progress
\* flag is false, the message is surfaced (probeError, revalidateResult, or the
\* log entry of the run) and beforeSnapshot is as it was; a run that ended
\* with an error issues no further fetch.
C18_FailedFetch ==
    /\ (~probeRun.error /\ probeRun'.error)
         => /\ probeRun'.pc = "ended"
            /\ ~page'.isProbing
            /\ page'.probeError \in FetchErrors
            /\ probeRun'.logged = "Network error"
            /\ page'.beforeSnapshot = page.beforeSnapshot
    /\ (~revalRun.error /\ revalRun'.error)
         => /\ revalRun'.pc = "ended"
            /\ ~page'.isRevalidating
            /\ page'.revalidateResult.kind = "Error"
            /\ page'.revalidateResult.text \in FetchErrors
            /\ page'.beforeSnapshot = page.beforeSnapshot
    /\ (~verifyRun.error /\ verifyRun'.error)
         => /\ verifyRun'.pc = "ended"
            /\ ~page'.isVerifying
            /\ verifyRun'.logged = "Verification error"
            /\ page'.beforeSnapshot = page.beforeSnapshot
    /\ probeRun.error => (probeRun' = probeRun \/ probeRun'.fetches = 0)
    /\ revalRun.error => (revalRun' = revalRun \/ revalRun'.fetches = 0)
    /\ verifyRun.error => (verifyRun' = verifyRun \/ verifyRun'.fetches = 0)

C18_NetworkErrorEndsRun == [][C18_FailedFetch]_vars

\* a poll of a probing run has failed and the run has ended with probeError set
C18_Witness ==
    /\ probeRun.error /\ probeRun.pc = "ended" /\ probeRun.fetches > 1
    /\ page.probeError \in FetchErrors
    /\ ~page.isProbing

\* a lowercase word character
IsLowerWordChar(c) == c \in {"a", "b", "_"}

\* C19 (as claimed): the slug of any title holds only lowercase word
\* characters and hyphens, no two hyphens in a row, and neither starts nor
\* ends with a hyphen or whitespace.
C19_SlugIsClean ==
    util.fn = "createSlug"
    => LET slug == util.result IN
       /\ \A i \in 1..Len(slug) : IsLowerWordChar(slug[i]) \/ slug[i] = "-"
       /\ \A i \in 1..(Len(slug) - 1) : ~(slug[i] = "-" /\ slug[i + 1] = "-")
       /\ (slug # <<>>) =>
             (slug[1] \notin {"-", " "} /\ slug[Len(slug)] \notin {"-", " "})

\* C20: createExcerpt returns the body as it is when it is not longer than
\* the maximum length, and otherwise its first maximum-length characters
\* followed by '...'; the result is never longer than the maximum plus 3.
C20_ExcerptIsBodyOrCut ==
    util.fn = "createExcerpt"
    => /\ Len(util.body) <= util.maxLength => util.result = util.body
       /\ Len(util.body) > util.maxLength
            => util.result = SubSeq(util.body, 1, util.maxLength) \o <<".", ".", ".">>
       /\ Len(util.result) <= util.maxLength + 3

\* a body of exactly the maximum length is returned as it is, and a longer
\* one has been cut
C20_Witness ==
    /\ util.fn = "createExcerpt"
    /\ Len(util.body) > util.maxLength /\ util.maxLength > 0
    /\ Len(util.result) = util.maxLength + 3

\* C21: calculateReadingTime returns an integer of at least 1, the ceiling of
\* the whitespace-split word count divided by 200 (the least n with
\* 200 * n >= count), and of two texts the one with more words never gets the
\* smaller estimate.
C21_ReadingTimeIsCeiling ==
    rt.fn = "calculateReadingTime"
    => /\ rt.result \in Nat /\ rt.result >= 1
       /\ 200 * rt.result >= SplitLength(rt.text)
       /\ 200 * (rt.result - 1) < SplitLength(rt.text)
       /\ (SplitLength(rt.text) >= SplitLength(rt.prevText))
            => (rt.result >= rt.prevResult)
       /\ (SplitLength(rt.text) <= SplitLength(rt.prevText))
            => (rt.result <= rt.prevResult)

\* the empty text, one word, was estimated first, and a text of more than 200
\* words got a larger estimate after it
C21_Witness ==
    /\ rt.fn = "calculateReadingTime"
    /\ rt.prevText = <<>> /\ rt.prevResult = 1
    /\ SplitLength(rt.text) > 200 /\ rt.result = 2

DataSourceFns == {"getPosts", "getPost", "getUsers", "getUser"}

\* C22 (as claimed): the mock/remote mode is fixed when the module is loaded
\* and every call runs in it; in mock mode the four functions of the data
\* source fetch nothing and never raise, an unknown id yielding null; in
\* remote mode a response that is not ok is raised to the caller as an error.
C22_ModeFixedMockSafeRemoteFailureRaised ==
    dc.fn \in DataSourceFns
    => /\ ds.loaded /\ dc.mock = ds.USE_MOCK_DATA
       /\ dc.mock => /\ ~dc.executed /\ ~dc.threw
                     /\ (dc.fn = "getPost" /\ dc.id \notin Range(MOCK_POSTS))
                          => (dc.value = NullValue)
                     /\ (dc.fn = "getUser" /\ dc.id \notin Range(MOCK_USERS))
                          => (dc.value = NullValue)
       /\ (~dc.mock /\ dc.outcome = "notok") => dc.threw

\* C25 (as claimed): the fetch a strategy of the blog service makes the data
\* source issue carries that strategy's caching directive: no-store,
\* force-cache, revalidate 60, or the two tags with revalidate 300.
C25_FetchCarriesStrategyDirective ==
    (dc.fn \in Strategies /\ dc.executed) => (dc.fetchOptions = StrategyOptions(dc.fn))

\* a call of the blog service whose fetch of the posts or of the users failed
BlogFetchFailed ==
    ~dc.mock /\ (dc.outcome # "ok" \/ dc.usersOutcome # "ok")

\* the posts getBlogPosts works on: the first three the data source gives
\* (fetchPostsWithTags), transformed
BlogPostsExpected == transformApiData(Slice10(Slice3(dc.posts)), dc.users)

\* C23: getBlogPosts and getBlogPost never raise; when fetching the posts or
\* the users fails they return the empty list and null; otherwise getBlogPosts
\* returns at most 10 transformed posts and getBlogPost(slug) the first
\* transformed post with that slug, or null when there is none.
C23_BlogServiceNeverRaises ==
    /\ dc.fn = "getBlogPosts"
        => /\ ~dc.threw
           /\ BlogFetchFailed => dc.value = ListValue(<<>>)
           /\ ~BlogFetchFailed => /\ dc.value = ListValue(BlogPostsExpected)
                                  /\ Len(dc.value.items) <= 10
    /\ dc.fn = "getBlogPost"
        => /\ ~dc.threw
           /\ BlogFetchFailed => dc.value = NullValue
           /\ ~BlogFetchFailed =>
                LET all == BlogPostsExpected
                    hits == {i \in 1..Len(all) : all[i].slug = dc.slug}
                IN IF hits = {} THEN dc.value = NullValue
                   ELSE /\ dc.value.kind = "post"
                        /\ \E i \in hits : /\ dc.value.post = all[i]
                                            /\ \A j \in hits : i <= j

\* getBlogPost found the first of two posts with the slug asked for
C23_Witness ==
    /\ dc.fn = "getBlogPost" /\ ~dc.mock /\ ~BlogFetchFailed
    /\ dc.value.kind = "post"
    /\ Cardinality({i \in 1..Len(BlogPostsExpected) :
                       BlogPostsExpected[i].slug = dc.slug}) = 2

\* the step was a wrappedGet call with a tagged hit and no active context
FallbackHitStep ==
    /\ wg' # wg /\ wg'.called
    /\ IsTaggedHit(wg'.result) /\ ~wg'.active

\* C24: the process-wide fallback buffer only ever grows at its end: a step
\* leaves it as it is, unless it is a wrappedGet call with a tagged hit and no
\* active request context, which appends exactly that hit's tags; nothing is
\* removed, reordered or de-duplicated, and the length never decreases.
C24_FallbackBufferStep ==
    /\ Len(wgGlobal') >= Len(wgGlobal)
    /\ SubSeq(wgGlobal', 1, Len(wgGlobal)) = wgGlobal
    /\ IF FallbackHitStep
       THEN wgGlobal' = wgGlobal \o wg'.result.tags
       ELSE wgGlobal' = wgGlobal

C24_FallbackBufferOnlyGrows == [][C24_FallbackBufferStep]_vars

\* two hits without a context left their tags in order, the repeated tag kept
C24_Witness ==
    /\ wg.called /\ IsTaggedHit(wg.result) /\ ~wg.active
    /\ wg.globBefore = <<"cdnprobe">>
    /\ wgGlobal = <<"cdnprobe", "cdnprobe", "api-posts">>

\* C26 (as claimed): every 500 response of a cache-strategy endpoint carries
\* the Cache-Control, Pragma and Expires headers of that endpoint's 200
\* response.
C26_ErrorResponseIsNoStore ==
    (PostsHandled /\ pr.resp.status = 500) => PostsHeaders = PostsOkHeaders(pr.endpoint)

\* C27 (as claimed): while isVerifying the baseline snapshot is present, and
\* an after-snapshot that is present comes from a verifying run started after
\* the current baseline was taken: the baseline that run captured when it
\* started is the baseline the page shows.
C27_AfterSnapshotFollowsBaseline ==
    /\ page.isVerifying => page.beforeSnapshot # NoProbeResult
    /\ page.afterSnapshot # NoProbeResult => verifyRun.baseline = page.beforeSnapshot

MiddlewareHandled == mw # NoMiddlewareRequest

\* the saves of a task that has ended: the completed record written, or that
\* save failed and the error record was tried once
TaskEndedWell(task) ==
    \/ task.saves = <<[completed |-> TRUE, ok |-> TRUE]>>
    \/ /\ Len(task.saves) = 2
       /\ task.saves[1] = [completed |-> TRUE, ok |-> FALSE]
       /\ ~task.saves[2].completed

\* C28: the middleware registers a background task exactly when the path is
\* the waitUntil trigger and taskId and CACHE_BUCKET are both non-empty; the
\* registered promise never rejects, and it ends after writing the completed
\* record to background-tasks/<taskId>.json or, that write failing, after one
\* attempt to write the error record to the same object.
C28_BackgroundTask ==
    /\ (MiddlewareHandled /\ mw.file # "src/middleware.ts")
        => (mw.registered <=>
              /\ mw.request.pathname = "/api/background-tasks/waituntil-trigger"
              /\ mw.request.taskId \notin {Null, ""}
              /\ mw.bucketName \notin {Undefined, ""})
    /\ \A i \in 1..Len(tasks) :
         /\ ~tasks[i].rejected
         /\ tasks[i].taskId \notin {Null, ""}
         /\ tasks[i].pc = "ended" => TaskEndedWell(tasks[i])
         /\ tasks[i].pc = "save" => tasks[i].saves = <<>>
         /\ tasks[i].pc = "saveError"
              => tasks[i].saves = <<[completed |-> TRUE, ok |-> FALSE]>>
    /\ \A t \in {"t1", "t2"} :
         LET o == objects[ObjectName(t)] IN
         o # NoObject
         => /\ o.taskId = t
            /\ \E i \in 1..Len(tasks) :
                  /\ tasks[i].taskId = t
                  /\ \E k \in 1..Len(tasks[i].saves) :
                        /\ tasks[i].saves[k].ok
                        /\ tasks[i].saves[k].completed = o.completed
            /\ ~o.completed => o.error \in SaveErrors

\* a task ended with the error record in the bucket, after its first save failed
C28_Witness ==
    /\ \E i \in 1..Len(tasks) :
         /\ tasks[i].pc = "ended" /\ tasks[i].taskId = "t1"
         /\ tasks[i].saves = <<[completed |-> TRUE, ok |-> FALSE],
                               [completed |-> FALSE, ok |-> TRUE]>>
    /\ objects[ObjectName("t1")] = errorData("t1", "permission denied")
    /\ MiddlewareHandled /\ ~mw.registered /\ mw.request.pathname = TriggerPath

\* C29: the middleware passes every request through: what it returns is
\* NextResponse.next() with no Surrogate-Key header, returned without waiting
\* for the task it may have registered, and a request leaves the tag buffers
\* as they are.
C29_PassThroughStep ==
    (mw' # mw)
    => /\ mw'.resp.kind = "next"
       /\ "SurrogateKey" \notin DOMAIN mw'.resp.headers
       /\ mw'.registered => (Len(tasks') = Len(tasks) + 1 /\ tasks'[Len(tasks')].pc = "save")
       /\ pantheonSurrogateKeyTags' = pantheonSurrogateKeyTags
       /\ wgGlobal' = wgGlobal /\ wgCtx' = wgCtx

C29_MiddlewareIsPassThrough == [][C29_PassThroughStep]_vars

\* the middleware has returned while the task it registered is not finished
C29_Witness ==
    /\ MiddlewareHandled /\ mw.registered /\ mw.resp = NextResponseNext
    /\ tasks # <<>> /\ tasks[Len(tasks)].pc = "save"

\* the path parameter is missing, empty, or does not start with '/'
ProxyBadPath ==
    \/ ~px.request.path.present
    \/ px.request.path.value = <<>>
    \/ px.request.path.value[1] # "/"

\* neither NEXT_PUBLIC_SITE_URL nor the Host header gives a base URL
ProxyNoBase ==
    /\ ~px.siteUrl.present \/ px.siteUrl.value = <<>>
    /\ ~px.request.host.present \/ px.request.host.value = <<>>

\* C30: GET /api/cdn-proxy answers 400, without any outbound fetch, when path
\* is missing or does not start with '/'; 500, without any outbound fetch,
\* when no base URL can be found; 502 when the fetch or the reading of its
\* body fails or the 10 s timer aborts it; 200 otherwise.  Every response has
\* the no-cache headers, and no timer that was set is left pending.
C30_CdnProxyResponses ==
    /\ px.pc \in {"fetching", "reading"} => (~ProxyBadPath /\ ~ProxyNoBase)
    /\ px.pc = "responded"
        => /\ px.resp.headers = NO_CACHE_HEADERS
           /\ px.resp.status \in {200, 400, 500, 502}
           /\ (px.resp.status = 400) <=> ProxyBadPath
           /\ (px.resp.status = 500) <=> (~ProxyBadPath /\ ProxyNoBase)
           /\ (px.resp.status \in {400, 500}) => (~px.fetched /\ px.timer = "none")
           /\ (px.resp.status = 502) <=> (px.fetched /\ px.cause \in {"fetch", "body"})
           /\ px.aborted => (px.resp.status = 502)
           /\ (px.resp.status = 200) => (px.fetched /\ px.cause = "none")
           /\ px.fetched => (px.timer \in {"cleared", "fired"} /\ px.clears >= 1)

\* the timer aborted the fetch and the request was answered 502
C30_Witness ==
    /\ px.pc = "responded" /\ px.aborted /\ px.timer = "fired"
    /\ px.resp.status = 502
    /\ ~px.siteUrl.present /\ px.request.host.present

====
